---- MODULE Spec2Model ----
(***************************************************************************)
(* State-machine model of the workflow engines of vizmind-ai:              *)
(*   "doc"      the document-processing graph (graph_builder.py and        *)
(*              document_processing_nodes.py),                             *)
(*   "ragnodes" the RAG graph of RAGNodes (rag_builder.py, rag_nodes.py),  *)
(*   "cmvs"     the concept-map graph (cmvs_builder.py, cmvs_nodes.py).    *)
(* One behaviour is one run of one workflow.  A step is one node of the    *)
(* graph together with the routing decision the executor takes after it.   *)
(* Calls to external collaborators (document parser, LLM, embedding model, *)
(* vector store, web search) are nondeterministic choices over outcomes.   *)
(***************************************************************************)
EXTENDS Integers, Sequences, FiniteSets, TLC

VARIABLES
    wf,                \* which workflow this run executes
    pc,                \* the node the executor runs next, or END
    state,             \* the workflow state dict threaded through the run
    invoked,           \* names of the nodes invoked so far, in order
    route,             \* result of the last routing decision ("none" before the first)
    raised,            \* TRUE once graph.ainvoke has raised into the caller's except
    errored,           \* TRUE once some node has left a non-empty error_message
    self,              \* configuration of the node object (RAGNodes.__init__)
    verdict,           \* what the grading call produced in this run (observation)
    context,           \* documents generate_answer supplied as context (observation)
    chunks_collection, \* chunk records persisted in the store
    maps_collection,   \* concept-map documents persisted in the store
    chat_collection,   \* conversation documents of the chat_conversations collection
    requests,          \* calls suspended at an await: ask_question_endpoint calls on
                       \* the RAG query, execute_document_processing calls in ainvoke
    response,          \* what the endpoint call that ran last returned
    locals             \* local variables of the function that ran last (observation);
                       \* for concurrent runs the MemorySaver objects created so far,
                       \* for ingestion the number of documents uploaded

workflow_vars ==
    <<wf, pc, state, invoked, route, raised, errored, self, verdict, context,
      chunks_collection, maps_collection, locals>>

chat_vars == <<chat_collection, requests, response>>

vars == <<workflow_vars, chat_vars>>

(***************************************************************************)
(* Bounds of the model.                                                    *)
(***************************************************************************)
MaxChunks == 2
MaxDocs == 2
MaxWebDocs == 2

(***************************************************************************)
(* Python values.                                                          *)
(***************************************************************************)
None == "None"
END == "END"

\* Truthiness of an Optional[str]: None and the empty string are falsy.
Truthy(v) == v # None /\ v # ""

\* dict.update: the keys a node returns overwrite the state, the rest is kept.
Apply(s, update) ==
    [k \in (DOMAIN s) \cup (DOMAIN update) |->
        IF k \in DOMAIN update THEN update[k] ELSE s[k]]

\* str(e) of a caught exception: an exception may carry an empty message.
ExcText == {"", "exception"}

(***************************************************************************)
(* state.py: helpers for state manipulation.                               *)
(***************************************************************************)
set_error_keeps_stage(s, error_message) ==
    [s EXCEPT !.error_message = error_message]

set_error(s, error_message) ==
    [s EXCEPT !.error_message = error_message, !.stage = "failed"]

transition_stage_lost(s, new_stage) == s

transition_stage(s, new_stage) == [s EXCEPT !.stage = new_stage]

(***************************************************************************)
(* Document-processing workflow.                                           *)
(***************************************************************************)
DocStages ==
    {"initialized", "content_extracted", "outline_extracted", "mind_map_generated",
     "content_chunked", "chunks_embedded", "completed", "failed"}

DocNodes ==
    {"extract_content", "extract_outline", "optimize_mind_map", "chunk_content",
     "embed_and_store", "finalize"}

\* initial_state of execute_document_processing
DocInitialState ==
    [ raw_content |-> None,
      outline_text |-> None,
      hierarchical_data |-> None,
      chunks |-> <<>>,
      stage |-> "initialized",
      error_message |-> None,
      retry_count |-> 0,
      processing_start_time |-> None,
      processing_end_time |-> None ]

stage_routing ==
    [ content_extracted |-> "extract_outline",
      outline_extracted |-> "optimize_mind_map",
      mind_map_generated |-> "chunk_content",
      content_chunked |-> "embed_and_store",
      chunks_embedded |-> "finalize",
      completed |-> END ]

route_ignores_error(stage, error_message) ==
    IF stage \in DOMAIN stage_routing THEN stage_routing[stage] ELSE "failed"

route_document_processing(stage, error_message) ==
    IF Truthy(error_message) THEN "failed"
    ELSE IF stage \in DOMAIN stage_routing THEN stage_routing[stage]
    ELSE "failed"

\* The path maps of add_conditional_edges: routing result -> next node.
DocPathMap ==
    [ extract_content |-> [extract_outline |-> "extract_outline", failed |-> END],
      extract_outline |-> [optimize_mind_map |-> "optimize_mind_map", failed |-> END],
      optimize_mind_map |-> [chunk_content |-> "chunk_content", failed |-> END],
      chunk_content |-> [embed_and_store |-> "embed_and_store", failed |-> END],
      embed_and_store |-> [finalize |-> "finalize", failed |-> END] ]

\* except branch of execute_document_processing: the initial state, marked failed.
DocExecutorFailure(e) ==
    [DocInitialState EXCEPT !.stage = "failed", !.error_message = e]

extract_content_node(s, outcome) ==
    LET s1 == [s EXCEPT !.processing_start_time = "t0"] IN
    CASE outcome = "raise" -> set_error(s1, "Content extraction failed")
      [] outcome = "empty" -> set_error(s1, "Failed to extract content from document")
      [] OTHER -> transition_stage([s1 EXCEPT !.raw_content = "markdown"],
                                   "content_extracted")

extract_outline_node(s, outcome) ==
    IF ~Truthy(s.raw_content)
    THEN set_error(s, "No raw content available for outline extraction")
    ELSE CASE outcome = "raise" -> set_error(s, "Outline extraction failed")
           [] outcome = "no_sections" -> set_error(s, "No content sections to process")
           [] outcome = "no_valid_outlines" ->
                set_error(s, "No valid outline content extracted")
           [] OTHER -> transition_stage([s EXCEPT !.outline_text = "outline"],
                                        "outline_extracted")

optimize_mind_map_node(s, outcome) ==
    IF ~Truthy(s.outline_text)
    THEN set_error(s, "No outline text available for optimization")
    ELSE CASE outcome = "raise" -> set_error(s, "Mind map optimization failed")
           [] OTHER ->
                transition_stage(
                    [s EXCEPT !.outline_text = "optimized", !.hierarchical_data = "tree"],
                    "mind_map_generated")

\* n is the number of chunks the markdown splitter returned
chunk_content_node(s, outcome, n) ==
    IF ~Truthy(s.raw_content)
    THEN set_error(s, "No raw content available for chunking")
    ELSE IF outcome = "raise" THEN set_error(s, "Content chunking failed")
    ELSE transition_stage([s EXCEPT !.chunks = [i \in 1..n |-> i]],
                          "content_chunked")

\* a failure that rolls the chunks of the state back
embed_and_store_node_rolls_back(s, outcome) ==
    IF s.chunks = <<>>
    THEN set_error(s, "No chunks available for embedding")
    ELSE CASE outcome \in {"raise_before_insert", "raise_after_insert"} ->
                set_error([s EXCEPT !.chunks = <<>>], "Embedding and storage failed")
           [] OTHER -> transition_stage(s, "chunks_embedded")

embed_and_store_node(s, outcome) ==
    IF s.chunks = <<>>
    THEN set_error(s, "No chunks available for embedding")
    ELSE CASE outcome \in {"raise_before_insert", "raise_after_insert"} ->
                set_error(s, "Embedding and storage failed")
           [] OTHER -> transition_stage(s, "chunks_embedded")

\* the records embed_and_store_node leaves in the chunks collection
embed_and_store_inserts(s, outcome) ==
    IF s.chunks # <<>> /\ outcome \in {"ok", "raise_after_insert"}
    THEN s.chunks ELSE <<>>

finalize_processing_node(s, outcome) ==
    LET s1 == [s EXCEPT !.processing_end_time = "t1"] IN
    CASE outcome = "raise" -> set_error(s1, "Finalization failed")
      [] OTHER -> transition_stage(s1, "completed")

\* the map document is written although the node goes on to fail
finalize_inserts_before_failure(s, outcome) ==
    IF s.hierarchical_data # None THEN <<s.hierarchical_data>> ELSE <<>>

finalize_inserts(s, outcome) ==
    IF s.hierarchical_data # None /\ outcome = "ok" THEN <<s.hierarchical_data>> ELSE <<>>

\* One superstep of the compiled document graph: the node ran and returned s1;
\* the conditional edge of `node` is evaluated; a routing result outside the
\* path map raises inside ainvoke and lands in the caller's except branch.
DocStep(node, s1) ==
    /\ invoked' = Append(invoked, node)
    /\ errored' = (errored \/ Truthy(s1.error_message))
    /\ IF node = "finalize"
       THEN /\ state' = s1
            /\ pc' = END
            /\ route' = route
            /\ raised' = raised
       ELSE LET r == route_document_processing(s1.stage, s1.error_message) IN
            /\ route' = r
            /\ IF r \in DOMAIN DocPathMap[node]
               THEN /\ state' = s1
                    /\ pc' = DocPathMap[node][r]
                    /\ raised' = raised
               ELSE /\ state' = DocExecutorFailure("exception")
                    /\ pc' = END
                    /\ raised' = TRUE

DocRunning(node) == wf = "doc" /\ pc = node

extract_content ==
    /\ DocRunning("extract_content")
    /\ \E outcome \in {"ok", "empty", "raise"} :
          DocStep("extract_content", extract_content_node(state, outcome))
    /\ UNCHANGED <<wf, chat_vars, locals, self, verdict, context, chunks_collection, maps_collection>>

extract_outline ==
    /\ DocRunning("extract_outline")
    /\ \E outcome \in {"ok", "no_sections", "no_valid_outlines", "raise"} :
          DocStep("extract_outline", extract_outline_node(state, outcome))
    /\ UNCHANGED <<wf, chat_vars, locals, self, verdict, context, chunks_collection, maps_collection>>

optimize_mind_map ==
    /\ DocRunning("optimize_mind_map")
    /\ \E outcome \in {"ok", "raise"} :
          DocStep("optimize_mind_map", optimize_mind_map_node(state, outcome))
    /\ UNCHANGED <<wf, chat_vars, locals, self, verdict, context, chunks_collection, maps_collection>>

chunk_content ==
    /\ DocRunning("chunk_content")
    /\ \E outcome \in {"ok", "raise"}, n \in 0..MaxChunks :
          DocStep("chunk_content", chunk_content_node(state, outcome, n))
    /\ UNCHANGED <<wf, chat_vars, locals, self, verdict, context, chunks_collection, maps_collection>>

embed_and_store ==
    /\ DocRunning("embed_and_store")
    /\ \E outcome \in {"ok", "raise_before_insert", "raise_after_insert"} :
          /\ DocStep("embed_and_store", embed_and_store_node(state, outcome))
          /\ chunks_collection' = chunks_collection \o embed_and_store_inserts(state, outcome)
    /\ UNCHANGED <<wf, chat_vars, locals, self, verdict, context, maps_collection>>

finalize ==
    /\ DocRunning("finalize")
    /\ \E outcome \in {"ok", "raise"} :
          /\ DocStep("finalize", finalize_processing_node(state, outcome))
          /\ maps_collection' = maps_collection \o finalize_inserts(state, outcome)
    /\ UNCHANGED <<wf, chat_vars, locals, self, verdict, context, chunks_collection>>

\* graph.ainvoke raises for a reason outside the nodes (executor, checkpointer):
\* the except branch of execute_document_processing returns the failed state.
DocExecutorRaises ==
    /\ wf = "doc"
    /\ pc # END
    /\ \E e \in ExcText : state' = DocExecutorFailure(e)
    /\ pc' = END
    /\ raised' = TRUE
    /\ UNCHANGED <<wf, chat_vars, locals, invoked, route, errored, self, verdict, context,
                   chunks_collection, maps_collection>>

(***************************************************************************)
(* Concept-map workflow (CMVSNodes, cmvs_builder.build_graph_instance):    *)
(* chunk_text -> embed_chunks -> generate_react_flow -> store_db -> END.   *)
(* Every node returns a partial update of the state.                       *)
(***************************************************************************)
\* the initial GraphState the caller hands to run_cmvs_pipeline
CmvsInitialState(text, user_id) ==
    [ original_text |-> text,
      user_id |-> user_id,
      text_chunks |-> <<>>,
      hierarchical_chunks |-> <<>>,
      embedded_chunks |-> <<>>,
      raw_triples |-> <<>>,
      processed_triples |-> <<>>,
      react_flow_data |-> None,
      mongodb_doc_id |-> None,
      mongodb_chunk_ids |-> <<>>,
      error_message |-> None ]

chunk_text(s, outcome, n, e) ==
    IF ~Truthy(s.original_text)
    THEN [ error_message |-> "Input text is empty.",
           hierarchical_chunks |-> <<>>,
           embedded_chunks |-> <<>> ]
    ELSE IF outcome = "raise"
    THEN [ error_message |-> e,
           hierarchical_chunks |-> <<>>,
           embedded_chunks |-> s.embedded_chunks ]
    ELSE [ hierarchical_chunks |-> [i \in 1..n |-> i],
           error_message |-> None,
           embedded_chunks |-> s.embedded_chunks ]

embed_hierarchical_chunks(s, outcome) ==
    IF s.hierarchical_chunks = <<>>
    THEN [ embedded_chunks |-> <<>> ]
    ELSE IF outcome = "raise"
    THEN [ error_message |-> "Failed to embed chunks", embedded_chunks |-> <<>> ]
    ELSE [ embedded_chunks |-> s.hierarchical_chunks ]

generate_react_flow(s, outcome, e) ==
    IF s.hierarchical_chunks = <<>>
    THEN [ react_flow_data |-> "fallback", processed_triples |-> <<>>,
           error_message |-> "No hierarchical structure found in document." ]
    ELSE IF outcome = "raise"
    THEN [ react_flow_data |-> "fallback", processed_triples |-> <<>>,
           error_message |-> e ]
    ELSE [ react_flow_data |-> "llm", processed_triples |-> <<>>,
           error_message |-> None ]

store_cmvs_data_in_mongodb(s, outcome, e) ==
    IF s.processed_triples = <<>> /\ s.embedded_chunks = <<>>
    THEN [ mongodb_doc_id |-> None, mongodb_chunk_ids |-> <<>>,
           error_message |-> IF Truthy(s.error_message) THEN s.error_message
                             ELSE "No processed data to store." ]
    ELSE IF ~Truthy(s.user_id)
    THEN [ mongodb_doc_id |-> None, mongodb_chunk_ids |-> <<>>,
           error_message |-> "User ID missing." ]
    ELSE IF outcome = "raise"
    THEN [ mongodb_doc_id |-> None, mongodb_chunk_ids |-> <<>>, error_message |-> e ]
    ELSE [ mongodb_doc_id |-> IF s.processed_triples # <<>> THEN "doc_id" ELSE None,
           mongodb_chunk_ids |-> s.embedded_chunks,
           error_message |-> None ]

\* what _db_operations_sync writes when it runs to its end: the main map
\* document when there are triples, one record per embedded chunk
store_cmvs_inserts_map(s, outcome) ==
    IF /\ outcome = "ok"
       /\ s.processed_triples # <<>>
       /\ Truthy(s.user_id)
    THEN <<s.react_flow_data>> ELSE <<>>

store_cmvs_inserts_chunks(s, outcome) ==
    IF /\ outcome = "ok"
       /\ ~(s.processed_triples = <<>> /\ s.embedded_chunks = <<>>)
       /\ Truthy(s.user_id)
    THEN s.embedded_chunks ELSE <<>>

\* the unconditional edges of build_graph_instance
CmvsEdge ==
    [ chunk_text |-> "embed_chunks",
      embed_chunks |-> "generate_react_flow",
      generate_react_flow |-> "store_db",
      store_db |-> END ]

\* One superstep of a graph whose nodes return partial updates.
UpdateStep(node, update, next) ==
    /\ invoked' = Append(invoked, node)
    /\ state' = Apply(state, update)
    /\ errored' = (errored \/ ("error_message" \in DOMAIN update
                                 /\ Truthy(update.error_message)))
    /\ pc' = next
    /\ raised' = raised

CmvsRunning(node) == wf = "cmvs" /\ pc = node

cmvs_chunk_text ==
    /\ CmvsRunning("chunk_text")
    /\ \E outcome \in {"ok", "raise"}, n \in 0..MaxChunks, e \in ExcText :
          UpdateStep("chunk_text", chunk_text(state, outcome, n, e), CmvsEdge["chunk_text"])
    /\ UNCHANGED <<wf, chat_vars, locals, route, self, verdict, context, chunks_collection, maps_collection>>

cmvs_embed_chunks ==
    /\ CmvsRunning("embed_chunks")
    /\ \E outcome \in {"ok", "raise"} :
          UpdateStep("embed_chunks", embed_hierarchical_chunks(state, outcome),
                     CmvsEdge["embed_chunks"])
    /\ UNCHANGED <<wf, chat_vars, locals, route, self, verdict, context, chunks_collection, maps_collection>>

cmvs_generate_react_flow ==
    /\ CmvsRunning("generate_react_flow")
    /\ \E outcome \in {"ok", "raise"}, e \in ExcText :
          UpdateStep("generate_react_flow", generate_react_flow(state, outcome, e),
                     CmvsEdge["generate_react_flow"])
    /\ UNCHANGED <<wf, chat_vars, locals, route, self, verdict, context, chunks_collection, maps_collection>>

cmvs_store_db ==
    /\ CmvsRunning("store_db")
    /\ \E outcome \in {"ok", "raise"}, e \in ExcText :
          /\ UpdateStep("store_db", store_cmvs_data_in_mongodb(state, outcome, e),
                        CmvsEdge["store_db"])
          /\ maps_collection' = maps_collection \o store_cmvs_inserts_map(state, outcome)
          /\ chunks_collection' =
                chunks_collection \o store_cmvs_inserts_chunks(state, outcome)
    /\ UNCHANGED <<wf, chat_vars, locals, route, self, verdict, context>>

(***************************************************************************)
(* RAG workflow of RAGNodes (rag_builder.build_rag_graph):                 *)
(* retrieve_mongodb -> grade_db_retrieval -> [web_search] ->               *)
(* generate_final_answer -> END.  Confidence scores are in hundredths.     *)
(***************************************************************************)
MIN_DB_DOCS_FOR_LLM_GRADING == 1
CONFIDENCE_THRESHOLD_FOR_DB_ONLY == 60

\* confidence_score values a grading response may carry (0.0 .. 1.0)
ConfScores == {0, 40, 59, 60, 61, 90, 100}

\* A grading response: is_sufficient is "true", "false" or "missing" (the key
\* is absent from the parsed JSON); has_confidence tells whether the response
\* carries a confidence_score.
GradeResponses ==
    [is_sufficient : {"true", "false", "missing"},
     has_confidence : {TRUE},
     confidence_score : ConfScores]
    \cup
    [is_sufficient : {"true", "false", "missing"},
     has_confidence : {FALSE},
     confidence_score : {0}]

\* What the grading call of one run does: it is not made ("skipped"), it
\* raises, its text is not JSON ("unparsable"), or it returns a response.
GradeOutcomes ==
    {[kind |-> k, response |-> r] :
        k \in {"raise", "unparsable"},
        r \in {[is_sufficient |-> "missing", has_confidence |-> FALSE,
                confidence_score |-> 0]}}
    \cup {[kind |-> "response", response |-> r] : r \in GradeResponses}

NoVerdict ==
    [kind |-> "skipped",
     response |-> [is_sufficient |-> "missing", has_confidence |-> FALSE,
                   confidence_score |-> 0]]

DbDocs(n) == [i \in 1..n |-> [source |-> "db", id |-> i]]
WebDocs(n) == [i \in 1..n |-> [source |-> "web", id |-> i]]

\* the state the graph is invoked with
RagInitialState ==
    [ question |-> "question",
      db_documents |-> <<>>,
      web_documents |-> <<>>,
      db_retrieval_status |-> None,
      answer |-> None,
      cited_sources |-> <<>>,
      error_message |-> None ]

\* RAGNodes.__init__: the web search tool exists only with TAVILY_API_KEY set;
\* grading_llm is the structured-output LLM unless with_structured_output
\* raised; a failing vector store makes the constructor raise.
RagNodesConfigs ==
    [web_search_tool : BOOLEAN, structured : BOOLEAN, vector_store : {TRUE}]

retrieve_from_mongodb(slf, s, outcome, n) ==
    IF ~slf.vector_store
    THEN [ db_documents |-> <<>>,
           error_message |-> "MongoDB Vector Store not available." ]
    ELSE IF outcome = "raise"
    THEN [ db_documents |-> <<>>, error_message |-> "DB retrieval failed" ]
    ELSE [ db_documents |-> DbDocs(n), error_message |-> None ]

\* is_sufficient and confidence as grade_db_retrieval computes them from a
\* response of the structured-output LLM
StructuredGrade(r) ==
    [ is_sufficient |-> (r.is_sufficient = "true"),
      confidence |-> IF r.has_confidence THEN r.confidence_score ELSE 100 ]

\* ... and from the JSON text of the plain LLM (manual parsing)
ManualGrade(g) ==
    IF g.kind = "unparsable"
    THEN [ is_sufficient |-> FALSE, confidence |-> 0 ]
    ELSE [ is_sufficient |-> (g.response.is_sufficient = "true"),
           confidence |-> IF g.response.has_confidence
                          THEN g.response.confidence_score ELSE 50 ]

decision_threshold_exclusive(is_sufficient, confidence) ==
    IF is_sufficient /\ confidence > CONFIDENCE_THRESHOLD_FOR_DB_ONLY
    THEN "generate_from_db"
    ELSE "perform_web_search"

\* "Decision logic" of grade_db_retrieval
decision(is_sufficient, confidence) ==
    IF is_sufficient /\ confidence >= CONFIDENCE_THRESHOLD_FOR_DB_ONLY
    THEN "generate_from_db"
    ELSE IF is_sufficient /\ confidence < CONFIDENCE_THRESHOLD_FOR_DB_ONLY
    THEN "perform_web_search"
    ELSE "perform_web_search"

\* TRUE when grade_db_retrieval returns before calling the grading LLM
GradingSkipped(s) ==
    \/ Truthy(s.error_message)
    \/ s.db_documents = <<>>
    \/ Len(s.db_documents) < MIN_DB_DOCS_FOR_LLM_GRADING

\* the (is_sufficient, confidence) pair the decision logic is applied to
EffectiveGrade(slf, g) ==
    IF slf.structured THEN StructuredGrade(g.response) ELSE ManualGrade(g)

grade_db_retrieval_error_generates(slf, s, g) ==
    IF Truthy(s.error_message)
    THEN [ db_retrieval_status |-> "perform_web_search" ]
    ELSE IF s.db_documents = <<>> \/ Len(s.db_documents) < MIN_DB_DOCS_FOR_LLM_GRADING
    THEN [ db_retrieval_status |-> "perform_web_search" ]
    ELSE IF g.kind = "raise"
    THEN [ db_retrieval_status |-> "generate_from_db" ]
    ELSE LET grade == EffectiveGrade(slf, g) IN
         [ db_retrieval_status |-> decision(grade.is_sufficient, grade.confidence) ]

grade_db_retrieval(slf, s, g) ==
    IF Truthy(s.error_message)
    THEN [ db_retrieval_status |-> "perform_web_search" ]
    ELSE IF s.db_documents = <<>> \/ Len(s.db_documents) < MIN_DB_DOCS_FOR_LLM_GRADING
    THEN [ db_retrieval_status |-> "perform_web_search" ]
    ELSE IF g.kind = "raise"
    THEN [ db_retrieval_status |-> "perform_web_search" ]
    ELSE LET grade == EffectiveGrade(slf, g) IN
         [ db_retrieval_status |-> decision(grade.is_sufficient, grade.confidence) ]

perform_web_search_missing_tool_is_error(slf, s, outcome, n) ==
    IF ~slf.web_search_tool
    THEN [ web_documents |-> <<>>, error_message |-> "Web search tool not available" ]
    ELSE IF outcome = "raise"
    THEN [ web_documents |-> <<>>,
           error_message |-> IF Truthy(s.error_message)
                             THEN s.error_message \o ". Targeted web search failed"
                             ELSE "Targeted web search failed" ]
    ELSE [ web_documents |-> WebDocs(n), error_message |-> s.error_message ]

perform_web_search(slf, s, outcome, n) ==
    IF ~slf.web_search_tool
    THEN [ web_documents |-> <<>>, error_message |-> s.error_message ]
    ELSE IF outcome = "raise"
    THEN [ web_documents |-> <<>>,
           error_message |-> IF Truthy(s.error_message)
                             THEN s.error_message \o ". Targeted web search failed"
                             ELSE "Targeted web search failed" ]
    ELSE [ web_documents |-> WebDocs(n), error_message |-> s.error_message ]

db_documents_only(s) == s.db_documents

\* all_source_docs_for_citation of generate_answer
all_source_docs_for_citation(s) == s.db_documents \o s.web_documents

CitationSource(doc) ==
    [ type |-> IF doc.source = "db" THEN "mongodb_chunk" ELSE "web_search",
      identifier |-> doc.id ]

generate_answer_cites_named_sources(s, outcome) ==
    IF all_source_docs_for_citation(s) = <<>>
    THEN [ answer |-> "I could not find enough information to answer your question.",
           cited_sources |-> <<>> ]
    ELSE IF outcome = "raise"
    THEN [ answer |-> "Error generating answer from LLM.", cited_sources |-> <<>> ]
    ELSE [ answer |-> "answer",
           cited_sources |-> <<CitationSource(all_source_docs_for_citation(s)[1])>> ]

generate_answer(s, outcome) ==
    IF all_source_docs_for_citation(s) = <<>>
    THEN [ answer |-> "I could not find enough information to answer your question.",
           cited_sources |-> <<>> ]
    ELSE IF outcome = "raise"
    THEN [ answer |-> "Error generating answer from LLM.", cited_sources |-> <<>> ]
    ELSE [ answer |-> "answer",
           cited_sources |->
               [i \in 1..Len(all_source_docs_for_citation(s)) |->
                   CitationSource(all_source_docs_for_citation(s)[i])] ]

\* the conditional edge after grade_db_retrieval and its path map
RagConditionalEdge(s) == s.db_retrieval_status

RagPathMap ==
    [ generate_from_db |-> "generate_final_answer",
      perform_web_search |-> "web_search" ]

RagRunning(node) == wf = "ragnodes" /\ pc = node

retrieve_mongodb ==
    /\ RagRunning("retrieve_mongodb")
    /\ \E outcome \in {"ok", "raise"}, n \in 0..MaxDocs :
          UpdateStep("retrieve_mongodb", retrieve_from_mongodb(self, state, outcome, n),
                     "grade_db_retrieval")
    /\ UNCHANGED <<wf, chat_vars, locals, route, self, verdict, context, chunks_collection, maps_collection>>

rag_grade_db_retrieval ==
    /\ RagRunning("grade_db_retrieval")
    /\ \E g \in GradeOutcomes :
          LET update == grade_db_retrieval(self, state, g) IN
          /\ UpdateStep("grade_db_retrieval", update,
                        RagPathMap[RagConditionalEdge(Apply(state, update))])
          /\ route' = RagConditionalEdge(Apply(state, update))
          /\ verdict' = IF GradingSkipped(state) THEN NoVerdict ELSE g
    /\ UNCHANGED <<wf, chat_vars, locals, self, context, chunks_collection, maps_collection>>

web_search ==
    /\ RagRunning("web_search")
    /\ \E outcome \in {"ok", "raise"}, n \in 0..MaxWebDocs :
          UpdateStep("web_search", perform_web_search(self, state, outcome, n),
                     "generate_final_answer")
    /\ UNCHANGED <<wf, chat_vars, locals, route, self, verdict, context, chunks_collection, maps_collection>>

generate_final_answer ==
    /\ RagRunning("generate_final_answer")
    /\ \E outcome \in {"ok", "raise"} :
          UpdateStep("generate_final_answer", generate_answer(state, outcome), END)
    /\ context' = all_source_docs_for_citation(state)
    /\ UNCHANGED <<wf, chat_vars, locals, route, self, verdict, chunks_collection, maps_collection>>

(***************************************************************************)
(* Specification.                                                          *)
(***************************************************************************)
Workflows == {"doc", "cmvs", "ragnodes"}

InitialStates(w) ==
    CASE w = "doc" -> {DocInitialState}
      [] w = "cmvs" -> {CmvsInitialState(text, user_id) :
                           text \in {"", "text"}, user_id \in {None, "user"}}
      [] w = "ragnodes" -> {RagInitialState}

EntryPoint(w) ==
    CASE w = "doc" -> "extract_content"
      [] w = "cmvs" -> "chunk_text"
      [] w = "ragnodes" -> "retrieve_mongodb"

Init ==
    /\ wf \in Workflows
    /\ state \in InitialStates(wf)
    /\ pc = EntryPoint(wf)
    /\ invoked = <<>>
    /\ route = "none"
    /\ raised = FALSE
    /\ errored = FALSE
    /\ self \in IF wf = "ragnodes" THEN RagNodesConfigs
                ELSE {[web_search_tool |-> FALSE, structured |-> TRUE,
                       vector_store |-> TRUE]}
    /\ verdict = NoVerdict
    /\ context = <<>>
    /\ chunks_collection = <<>>
    /\ maps_collection = <<>>
    /\ chat_collection = <<>>
    /\ requests = <<>>
    /\ response = None
    /\ locals = None

Next ==
    \/ extract_content
    \/ extract_outline
    \/ optimize_mind_map
    \/ chunk_content
    \/ embed_and_store
    \/ finalize
    \/ DocExecutorRaises
    \/ cmvs_chunk_text
    \/ cmvs_embed_chunks
    \/ cmvs_generate_react_flow
    \/ cmvs_store_db
    \/ retrieve_mongodb
    \/ rag_grade_db_retrieval
    \/ web_search
    \/ generate_final_answer

Spec == Init /\ [][Next]_vars

\* The executor runs every scheduled node to its end and every external call
\* returns or raises: a run that can take a step eventually takes one.
FairSpec == Spec /\ WF_vars(Next)

(***************************************************************************)
(* The chat endpoints (chat_ep.py) over ChatService (chat_service.py).     *)
(* One user and one mind map; conversations are keyed by the node.  The    *)
(* handler of a question suspends only while it awaits the RAG query: the  *)
(* pymongo calls of ChatService do not yield, so the part before the query *)
(* and the part after it are one step each, and several calls interleave.  *)
(***************************************************************************)
MaxMessages == 4
MaxInFlight == 2

Requests == 1..MaxInFlight

NodeIds == {"n1", "n2"}

\* question texts a client sends; "" is rejected by the endpoint
QuestionTexts == {"", "what is x", "What is X "}

\* question.strip().lower()
strip_lower(question) ==
    CASE question = "What is X " -> "what is x"
      [] OTHER -> question

\* NodeDetailResponse of VizMindAIService.query_mind_map: the answer of a
\* completed RAG run with its citations, or the apology of a failed one
RagResponses ==
    { [ answer |-> "answer", message |-> None,
        cited_sources |-> <<[type |-> "mongodb_chunk", identifier |-> 1]>> ],
      [ answer |-> "I apologize, but I encountered an error while processing your question.",
        message |-> "RAG failed", cited_sources |-> <<>> ] }

Min(S) == CHOOSE x \in S : \A y \in S : x <= y

TotalMessages(coll) ==
    LET RECURSIVE Sum(_)
        Sum(i) == IF i = 0 THEN 0 ELSE Len(coll[i].messages) + Sum(i - 1)
    IN Sum(Len(coll))

\* conversation_filter: user_id, map_id, node_id, is_deleted False
conversation_filter(doc, node_id) ==
    /\ doc.user_id = "user"
    /\ doc.map_id = "map"
    /\ doc.node_id = node_id
    /\ ~doc.is_deleted

\* chat_collection.find_one(conversation_filter): position of the first
\* matching document, 0 when there is none
find_one(coll, node_id) ==
    LET found == {i \in DOMAIN coll : conversation_filter(coll[i], node_id)}
    IN IF found = {} THEN 0 ELSE Min(found)

\* the unique index of get_chat_collection on (user_id, map_id, node_id):
\* inserting a second document with the key of any stored document, deleted
\* or not, raises DuplicateKeyError
unique_index_allows(coll, node_id) ==
    \A i \in DOMAIN coll :
        ~(coll[i].user_id = "user" /\ coll[i].map_id = "map"
            /\ coll[i].node_id = node_id)

save_message_without_unique_index(coll, node_id, node_label, message, outcome) ==
    IF outcome = "raise" THEN coll
    ELSE IF find_one(coll, node_id) # 0
    THEN [coll EXCEPT ![find_one(coll, node_id)].messages = Append(@, message),
                      ![find_one(coll, node_id)].node_label = node_label]
    ELSE Append(coll, [ id |-> Len(coll) + 1, user_id |-> "user", map_id |-> "map",
                        node_id |-> node_id, node_label |-> node_label,
                        messages |-> <<message>>, is_deleted |-> FALSE ])

\* save_message with $push replaced by an insertion at the head of the array
save_message_prepends(coll, node_id, node_label, message, outcome) ==
    IF outcome = "raise" THEN coll
    ELSE IF find_one(coll, node_id) # 0
    THEN [coll EXCEPT ![find_one(coll, node_id)].messages = <<message>> \o @,
                      ![find_one(coll, node_id)].node_label = node_label]
    ELSE IF ~unique_index_allows(coll, node_id) THEN coll
    ELSE Append(coll, [ id |-> Len(coll) + 1, user_id |-> "user", map_id |-> "map",
                        node_id |-> node_id, node_label |-> node_label,
                        messages |-> <<message>>, is_deleted |-> FALSE ])

\* ChatService.save_message: the collection after the call
save_message(coll, node_id, node_label, message, outcome) ==
    IF outcome = "raise" THEN coll
    ELSE IF find_one(coll, node_id) # 0
    THEN [coll EXCEPT ![find_one(coll, node_id)].messages = Append(@, message),
                      ![find_one(coll, node_id)].node_label = node_label]
    ELSE IF ~unique_index_allows(coll, node_id) THEN coll
    ELSE Append(coll, [ id |-> Len(coll) + 1, user_id |-> "user", map_id |-> "map",
                        node_id |-> node_id, node_label |-> node_label,
                        messages |-> <<message>>, is_deleted |-> FALSE ])

\* ChatService.get_conversation_history: the messages it returns
get_conversation_history(coll, node_id, outcome) ==
    IF outcome = "raise" \/ find_one(coll, node_id) = 0 THEN <<>>
    ELSE coll[find_one(coll, node_id)].messages

\* ChatService.soft_delete_conversation: the collection after the call
soft_delete_conversation(coll, node_id, outcome) ==
    IF outcome = "raise" \/ find_one(coll, node_id) = 0 THEN coll
    ELSE [coll EXCEPT ![find_one(coll, node_id)].is_deleted = TRUE]

\* the history loop of ask_question_endpoint: positions of the questions that
\* match and are directly followed by an answer
cache_hits(messages, question) ==
    {i \in 1..(Len(messages) - 1) :
        /\ messages[i].type = "question"
        /\ strip_lower(messages[i].content) = strip_lower(question)
        /\ messages[i + 1].type = "answer"}

\* the loop fell through: no answer message
NoMessage == [ type |-> "none", content |-> None, cited_sources |-> <<>> ]

cached_answer_never_found(messages, question) == NoMessage

\* the answer message the loop returns from, NoMessage when it falls through
cached_answer(messages, question) ==
    IF cache_hits(messages, question) = {} THEN NoMessage
    ELSE messages[Min(cache_hits(messages, question)) + 1]

IdleRequest ==
    [ phase |-> "idle", question |-> "", node_id |-> None, node_label |-> None,
      history |-> "none" ]

\* what an endpoint call returns: the fields of NodeDetailResponse (message
\* also stands for the message of ChatHistoryResponse), the HTTP status, and
\* for a response served from the history the node it was looked up for
NoResponse ==
    [ status |-> "none", query |-> "", node_id |-> None, answer |-> None,
      cited_sources |-> <<>>, message |-> None ]

HTTPException(status) ==
    [ status |-> status, query |-> "", node_id |-> None, answer |-> None,
      cited_sources |-> <<>>, message |-> None ]

\* the call is suspended on query_mind_map
awaits_query_mind_map(r, question, node_id, node_label, history) ==
    /\ TotalMessages(chat_collection)
          + 2 * Cardinality({q \in Requests : requests[q].phase = "rag"})
          + 2 <= MaxMessages
    /\ response' = NoResponse
    /\ requests' = [requests EXCEPT ![r] =
          [ phase |-> "rag", question |-> question, node_id |-> node_id,
            node_label |-> node_label, history |-> history ]]

\* ask_question_endpoint up to the await of query_mind_map: validation, the
\* history lookup and, on a hit, the cached response
ask_question_endpoint(r) ==
    /\ wf = "chat"
    /\ requests[r].phase = "idle"
    /\ \E question \in QuestionTexts :
          IF question = ""
          THEN /\ response' = HTTPException("400")
               /\ UNCHANGED requests
          ELSE \E map_doc \in BOOLEAN :
          IF ~map_doc
          THEN /\ response' = HTTPException("404")
               /\ UNCHANGED requests
          ELSE \E node_id \in NodeIds \cup {None}, node_label \in {None, "label"} :
          IF node_id = None \/ node_label = None
          THEN awaits_query_mind_map(r, question, node_id, node_label, "none")
          ELSE \E history \in {"ok", "raise"} :
          LET messages == get_conversation_history(chat_collection, node_id, history)
              hit == cached_answer(messages, question)
          IN
          IF hit.type = "answer"
          THEN /\ response' = [ status |-> "200", query |-> question,
                                node_id |-> node_id, answer |-> hit.content,
                                cited_sources |-> hit.cited_sources,
                                message |-> "Retrieved from chat history" ]
               /\ UNCHANGED requests
          ELSE awaits_query_mind_map(r, question, node_id, node_label, history)
    /\ UNCHANGED <<workflow_vars, chat_collection>>

\* the outcomes of the two save_message calls of the endpoint call that ran last
NoSaves == [node_id |-> None, q_saved |-> "none", a_saved |-> "none"]

\* ask_question_endpoint from the return of query_mind_map: both messages are
\* saved when node information was given, and the response is returned
ask_question_endpoint_after_rag(r) ==
    /\ wf = "chat"
    /\ requests[r].phase = "rag"
    /\ \E rag \in RagResponses :
          LET req == requests[r]
              question_message == [ type |-> "question", content |-> req.question,
                                    cited_sources |-> <<>> ]
              answer_message == [ type |-> "answer", content |-> rag.answer,
                                  cited_sources |-> rag.cited_sources ]
          IN
          /\ IF req.node_id # None /\ req.node_label # None
             THEN \E q_saved \in {"ok", "raise"}, a_saved \in {"ok", "raise"} :
                     /\ chat_collection' =
                           save_message(
                              save_message(chat_collection, req.node_id,
                                           req.node_label, question_message, q_saved),
                              req.node_id, req.node_label, answer_message, a_saved)
                     /\ locals' = [node_id |-> req.node_id, q_saved |-> q_saved,
                                   a_saved |-> a_saved]
             ELSE /\ UNCHANGED chat_collection
                  /\ locals' = NoSaves
          /\ response' = [ status |-> "200", query |-> req.question,
                           node_id |-> None, answer |-> rag.answer,
                           cited_sources |-> rag.cited_sources,
                           message |-> rag.message ]
    /\ requests' = [requests EXCEPT ![r] = IdleRequest]
    /\ UNCHANGED <<wf, pc, state, invoked, route, raised, errored, self, verdict,
                   context, chunks_collection, maps_collection>>

\* delete_chat_history_endpoint
delete_chat_history_endpoint ==
    /\ wf = "chat"
    /\ \E node_id \in NodeIds, map_doc \in BOOLEAN :
          IF ~map_doc
          THEN /\ response' = HTTPException("404")
               /\ UNCHANGED chat_collection
          ELSE \E outcome \in {"ok", "raise"} :
               /\ chat_collection' =
                     soft_delete_conversation(chat_collection, node_id, outcome)
               /\ response' =
                     [ status |-> "200", query |-> "", node_id |-> None,
                       answer |-> None, cited_sources |-> <<>>,
                       message |->
                          IF outcome = "raise" THEN "Database error occurred"
                          ELSE IF find_one(chat_collection, node_id) = 0
                          THEN "No conversation found to delete"
                          ELSE "Conversation deleted successfully" ]
    /\ UNCHANGED <<workflow_vars, requests>>

ChatInit ==
    /\ wf = "chat"
    /\ pc = END
    /\ state = DocInitialState
    /\ invoked = <<>>
    /\ route = "none"
    /\ raised = FALSE
    /\ errored = FALSE
    /\ self = [web_search_tool |-> FALSE, structured |-> TRUE, vector_store |-> TRUE]
    /\ verdict = NoVerdict
    /\ context = <<>>
    /\ chunks_collection = <<>>
    /\ maps_collection = <<>>
    /\ chat_collection = <<>>
    /\ requests = [r \in Requests |-> IdleRequest]
    /\ response = NoResponse
    /\ locals = NoSaves

ChatNext ==
    \/ \E r \in Requests : ask_question_endpoint(r)
    \/ \E r \in Requests : ask_question_endpoint_after_rag(r)
    \/ delete_chat_history_endpoint

ChatSpec == ChatInit /\ [][ChatNext]_vars

(***************************************************************************)
(* The concept graph builder: CMVSNodes.process_graph_data                 *)
(* (src/app/langgraph_pipeline/nodes.py) with normalize_label              *)
(* (cmvs_helpers.py).  A string is the sequence of its tokens: a word, or  *)
(* a run of whitespace.  A word is its letters and how they are cased.     *)
(***************************************************************************)
MaxTriples == 2

Word(base, case) == [base |-> base, case |-> case]

\* a run of whitespace characters
SP == Word(" ", "none")

\* word.upper() in {"AI", "ML", "API", ...}: the acronyms of normalize_label,
\* by their lower-case base ("iOS" is left out: no upper-cased word equals it)
Acronyms ==
    {"ai", "ml", "api", "cpu", "gpu", "ram", "sql", "xml", "json", "html",
     "css", "php", "ui", "ux", "seo", "crm", "erp", "roi", "kpi", "sdg",
     "gdp", "nasa", "who", "faq", "ceo", "cto", "hr", "it", "pr"}

\* label.strip().split(): the words of the string
split(label) == SelectSeq(label, LAMBDA token : token # SP)

\* normalize_label: the words joined by single spaces, short upper-case words
\* and acronyms upper-cased, every other word capitalized
normalize_label(label) ==
    IF label = <<>> THEN <<>>
    ELSE [i \in 1..Len(split(label)) |->
             IF \/ Len(split(label)[i].base) <= 4 /\ split(label)[i].case = "upper"
                \/ split(label)[i].base \in Acronyms
             THEN Word(split(label)[i].base, "upper")
             ELSE Word(split(label)[i].base, "title")]

\* str.strip(): whitespace removed at both ends
RECURSIVE strip(_)
strip(text) ==
    IF text = <<>> THEN <<>>
    ELSE IF Head(text) = SP THEN strip(Tail(text))
    ELSE IF text[Len(text)] = SP THEN strip(SubSeq(text, 1, Len(text) - 1))
    ELSE text

\* endpoint labels and relations the triple extraction can deliver; the empty
\* string also stands for a missing key, which takes the same branch
RawLabels ==
    { <<SP>>, <<SP, Word("ai", "title"), SP>>, <<Word("deep", "lower")>> }

RawRelations == { <<>>, <<SP>>, <<Word("is", "lower")>> }

RawTriples == [source : RawLabels, target : RawLabels, relation : RawRelations]

\* "Basic validation" of process_graph_data
well_formed(triple) ==
    triple.source # <<>> /\ triple.target # <<>> /\ triple.relation # <<>>

normalized_triples_intermediate(raw_triples) ==
    LET kept == SelectSeq(raw_triples, well_formed) IN
    [k \in 1..Len(kept) |->
        [ source |-> normalize_label(kept[k].source),
          target |-> normalize_label(kept[k].target),
          relation |-> strip(kept[k].relation) ]]

\* nodes: the set of endpoint labels
nodes(triples) ==
    {triples[k].source : k \in DOMAIN triples} \cup {triples[k].target : k \in DOMAIN triples}

\* list(nodes): a Python set is enumerated in an order the code does not fix
Enumerations(labels) ==
    {order \in [1..Cardinality(labels) -> labels] :
        \A i, j \in DOMAIN order : order[i] = order[j] => i = j}

\* cosine similarities of the label embeddings, in hundredths; the matrix is
\* symmetric, so a similarity belongs to the unordered pair of labels
similarity_threshold == 85
SimScores == {85, 90}
Similarities(labels) ==
    [{pair \in SUBSET labels : Cardinality(pair) = 2} -> SimScores]

cosine_matrix(unique_node_labels, sim, i, j) ==
    sim[{unique_node_labels[i], unique_node_labels[j]}]

\* the inner loop of the similarity merge, from position j on
RECURSIVE merge_into(_, _, _, _, _)
merge_into(node_map, unique_node_labels, sim, i, j) ==
    IF j > Len(unique_node_labels) THEN node_map
    ELSE IF node_map[unique_node_labels[j]] # unique_node_labels[j]
    THEN merge_into(node_map, unique_node_labels, sim, i, j + 1)
    ELSE IF cosine_matrix(unique_node_labels, sim, i, j) > similarity_threshold
    THEN merge_into([node_map EXCEPT ![unique_node_labels[j]] = unique_node_labels[i]],
                    unique_node_labels, sim, i, j + 1)
    ELSE merge_into(node_map, unique_node_labels, sim, i, j + 1)

RECURSIVE similarity_merge_from_redirected(_, _, _, _)
similarity_merge_from_redirected(node_map, unique_node_labels, sim, i) ==
    IF i > Len(unique_node_labels) THEN node_map
    ELSE similarity_merge_from_redirected(
            merge_into(node_map, unique_node_labels, sim, i, i + 1),
            unique_node_labels, sim, i + 1)

\* the outer loop of the similarity merge, from position i on
RECURSIVE similarity_merge(_, _, _, _)
similarity_merge(node_map, unique_node_labels, sim, i) ==
    IF i > Len(unique_node_labels) THEN node_map
    ELSE IF node_map[unique_node_labels[i]] # unique_node_labels[i]
    THEN similarity_merge(node_map, unique_node_labels, sim, i + 1)
    ELSE similarity_merge(merge_into(node_map, unique_node_labels, sim, i, i + 1),
                          unique_node_labels, sim, i + 1)

resolve_nothing(node_map, label) == label

\* "Resolve chained mappings": follow the map until a label maps to itself
RECURSIVE resolve(_, _)
resolve(node_map, label) ==
    IF node_map[label] # label THEN resolve(node_map, node_map[label]) ELSE label

merged_triples_final(triples, node_map) ==
    [k \in 1..Len(triples) |->
        [ source |-> resolve(node_map, triples[k].source),
          target |-> resolve(node_map, triples[k].target),
          relation |-> triples[k].relation ]]

final_unique_triples_keeps_all(triples) == triples

\* the triples in the order of their first occurrence
final_unique_triples(triples) ==
    LET first == {k \in DOMAIN triples : \A h \in 1..(k - 1) : triples[h] # triples[k]}
        RECURSIVE Collect(_)
        Collect(k) ==
            IF k > Len(triples) THEN <<>>
            ELSE IF k \in first THEN <<triples[k]>> \o Collect(k + 1)
            ELSE Collect(k + 1)
    IN Collect(1)

\* locals of process_graph_data when it returns before the merge
NoLocals ==
    [ unique_node_labels |-> <<>>, node_map |-> <<>>, merged_triples_final |-> <<>> ]

\* process_graph_data once the labels are enumerated and embedded: the update
\* it returns, with the locals the merge and the resolution went through
process_graph_data(s, unique_node_labels, sim) ==
    LET triples == normalized_triples_intermediate(s.raw_triples)
        identity == [label \in nodes(triples) |-> label]
        node_map == IF Len(unique_node_labels) > 1
                    THEN similarity_merge(identity, unique_node_labels, sim, 1)
                    ELSE identity
        merged == merged_triples_final(triples, node_map)
    IN [ update |-> [ processed_triples |-> final_unique_triples(merged),
                      error_message |-> None ],
         locals |-> [ unique_node_labels |-> unique_node_labels,
                      node_map |-> node_map,
                      merged_triples_final |-> merged ] ]

\* the node process_main_map_graph of the concept-map graph
process_main_map_graph ==
    /\ wf = "graph"
    /\ pc = "process_main_map_graph"
    /\ LET triples == normalized_triples_intermediate(state.raw_triples) IN
       IF state.raw_triples = <<>>
       THEN /\ UpdateStep("process_main_map_graph",
                          [ processed_triples |-> <<>>,
                            error_message |-> IF Truthy(state.error_message)
                                              THEN state.error_message ELSE None ],
                          "generate_main_map_mermaid")
            /\ locals' = NoLocals
       ELSE IF triples = <<>>
       THEN /\ UpdateStep("process_main_map_graph",
                          [ processed_triples |-> <<>>,
                            error_message |->
                               "No valid triples after initial normalization." ],
                          "generate_main_map_mermaid")
            /\ locals' = NoLocals
       ELSE \E unique_node_labels \in Enumerations(nodes(triples)) :
            IF Len(unique_node_labels) > 1
            THEN \E outcome \in {"ok", "raise"} :
                 IF outcome = "raise"
                 THEN /\ UpdateStep("process_main_map_graph",
                                    [ error_message |-> "exception",
                                      processed_triples |-> <<>> ],
                                    "generate_main_map_mermaid")
                      /\ locals' = NoLocals
                 ELSE \E sim \in Similarities(nodes(triples)) :
                      /\ UpdateStep("process_main_map_graph",
                            process_graph_data(state, unique_node_labels, sim).update,
                            "generate_main_map_mermaid")
                      /\ locals' =
                            process_graph_data(state, unique_node_labels, sim).locals
            ELSE /\ UpdateStep("process_main_map_graph",
                       process_graph_data(state, unique_node_labels, <<>>).update,
                       "generate_main_map_mermaid")
                 /\ locals' = process_graph_data(state, unique_node_labels, <<>>).locals
    /\ UNCHANGED <<wf, chat_vars, route, self, verdict, context, chunks_collection,
                   maps_collection>>

\* the state process_main_map_graph is invoked with: the triples extracted
\* from the document, and the error an earlier node may have left
GraphInitialStates ==
    { [ raw_triples |-> raw_triples, processed_triples |-> <<>>,
        error_message |-> error_message ] :
        raw_triples \in UNION {[1..n -> RawTriples] : n \in 0..MaxTriples},
        error_message \in {None, "Failed to extract triples"} }

GraphInit ==
    /\ wf = "graph"
    /\ state \in GraphInitialStates
    /\ pc = "process_main_map_graph"
    /\ invoked = <<>>
    /\ route = "none"
    /\ raised = FALSE
    /\ errored = FALSE
    /\ self = [web_search_tool |-> FALSE, structured |-> TRUE, vector_store |-> TRUE]
    /\ verdict = NoVerdict
    /\ context = <<>>
    /\ chunks_collection = <<>>
    /\ maps_collection = <<>>
    /\ chat_collection = <<>>
    /\ requests = <<>>
    /\ response = None
    /\ locals = NoLocals

GraphNext == process_main_map_graph

GraphSpec == GraphInit /\ [][GraphNext]_vars

(***************************************************************************)
(* Layout (CMVSNodes.generate_react_flow and its helpers, and              *)
(* cmvs_helpers.generate_react_flow_data): positioned nodes and edges for  *)
(* the rendering of a hierarchy or of a list of triples.  Titles and       *)
(* labels are sequences of words, as in the concept-graph section; the     *)
(* bounded titles are shorter than the 30 and 100 character cuts.          *)
(***************************************************************************)
MaxChildren == 2
MaxAttachments == 2

LEVEL_HEIGHT == 150
NODE_WIDTH == 250
START_X == 50
START_Y == 50

\* data without a level
NoLevel == 0 - 1

NodeId(name, n) == [name |-> name, n |-> n]

\* parent_id = None
NoParent == NodeId(<<>>, 0)

LayoutNode(id, label, level, x, y) ==
    [id |-> id, label |-> label, level |-> level, x |-> x, y |-> y]

\* f"edge-{source}-{target}" and f"edge-{edge_id_counter}"
LayoutEdge(source, target, n) ==
    [id |-> [source |-> source, target |-> target, n |-> n],
     source |-> source, target |-> target]

\* the concatenation of a sequence of sequences
RECURSIVE Concat(_)
Concat(seqs) ==
    IF seqs = <<>> THEN <<>> ELSE Head(seqs) \o Concat(Tail(seqs))

SeqsUpTo(S, n) == UNION {[1..k -> S] : k \in 0..n}

Max(a, b) == IF a >= b THEN a ELSE b

create_fallback_react_flow ==
    [ nodes |-> << LayoutNode(NodeId(<<Word("fallback-document", "none")>>, 0),
                              <<Word("Document Structure", "none")>>, 0, 50, 50),
                   LayoutNode(NodeId(<<Word("fallback-content", "none")>>, 0),
                              <<Word("Content", "none")>>, 1, 350, 130) >>,
      edges |-> << LayoutEdge(NodeId(<<Word("fallback-document", "none")>>, 0),
                              NodeId(<<Word("fallback-content", "none")>>, 0), 0) >> ]

\* titles of the nodes of an attachment's structured_content
RawTitles ==
    { <<SP>>, <<Word("intro", "title")>>, <<Word("methods", "title"), SP>> }
LeafTitles == { <<SP>>, <<Word("intro", "title")>> }

\* the nodes below the top node of a structured_content: leaves, and nodes
\* with one or two leaves below them
LeafNodes == [title : LeafTitles, children : {<<>>}]
ChildNodes ==
    LeafNodes \cup
    { [ title |-> <<Word("intro", "title")>>,
        children |-> [k \in 1..n |-> [ title |-> <<Word("intro", "title")>>,
                                       children |-> <<>> ]] ] : n \in 1..MaxChildren }

StructuredContents ==
    [ title : RawTitles, children : SeqsUpTo(ChildNodes, MaxChildren) ]

\* an attachment; structured_content is <<>> when the key is missing or None
Attachments ==
    [ filename : {<<Word("doc", "lower")>>},
      structured_content : {<<>>} \cup {<<content>> : content \in StructuredContents} ]

\* extract_recursive of _extract_nested_titles_from_content: <<>> for None
RECURSIVE extract_recursive(_, _)
extract_recursive(node, level) ==
    LET title == strip(node.title) IN
    IF title = <<>> THEN <<>>
    ELSE << [ title |-> title, level |-> level,
              children |-> Concat([k \in DOMAIN node.children |->
                                     extract_recursive(node.children[k], level + 1)]) ] >>

RECURSIVE count_titles_recursive(_)
count_titles_recursive(hierarchy) ==
    IF hierarchy = <<>> THEN 0
    ELSE 1 + count_titles_recursive(Head(hierarchy).children)
           + count_titles_recursive(Tail(hierarchy))

\* ", ".join(filenames)
RECURSIVE join_filenames(_)
join_filenames(attachments) ==
    IF Len(attachments) = 1 THEN Head(attachments).filename
    ELSE Head(attachments).filename \o <<Word(",", "none"), SP>>
           \o join_filenames(Tail(attachments))

extract_hierarchy_titles(attachments) ==
    LET nested_hierarchy ==
            Concat([k \in DOMAIN attachments |->
                      IF attachments[k].structured_content # <<>>
                      THEN extract_recursive(attachments[k].structured_content[1], 0)
                      ELSE <<>>])
    IN [ document_title |-> IF attachments # <<>> THEN join_filenames(attachments)
                            ELSE <<Word("document", "title")>>,
         hierarchy |-> nested_hierarchy,
         total_titles |-> count_titles_recursive(nested_hierarchy) ]

\* clean_title of create_clean_node_id: punctuation removed, runs of
\* whitespace turned into "-", lower case
clean_title(title) ==
    LET kept == strip(SelectSeq(title, LAMBDA token : token.case # "none" \/ token = SP))
    IN [k \in DOMAIN kept |->
           IF kept[k] = SP THEN Word("-", "none") ELSE Word(kept[k].base, "lower")]

\* a subtree taken to be as wide as a single node
single_node_width(node) == 1

RECURSIVE calculate_subtree_width(_)
RECURSIVE total_width(_)
\* sum(calculate_subtree_width(child) for child in children)
total_width(children) ==
    IF children = <<>> THEN 0
    ELSE calculate_subtree_width(Head(children)) + total_width(Tail(children))

calculate_subtree_width(node) ==
    IF node.children = <<>> THEN 1 ELSE Max(1, total_width(node.children))

\* a node placed at the start of its span, children or not
left_of_children(current_x, children) == current_x

\* node_x: a node with children is centered over them
center_over_children(current_x, children) ==
    LET children_pixel_width == total_width(children) * NODE_WIDTH IN
    IF children # <<>>
    THEN Max(current_x + ((children_pixel_width - NODE_WIDTH) \div 2), current_x)
    ELSE current_x

\* position_nodes_horizontally from the k-th node of nodes_list on; acc holds
\* the closure's nodes, edges, node_id_map and node_counter
RECURSIVE position_nodes_horizontally(_, _, _, _, _, _)
position_nodes_horizontally(acc, nodes_list, k, level, current_x, parent_id) ==
    IF k > Len(nodes_list) THEN acc
    ELSE
    LET node == nodes_list[k]
        title == strip(node.title)
    IN
    IF title = <<>>
    THEN position_nodes_horizontally(acc, nodes_list, k + 1, level, current_x, parent_id)
    ELSE
    LET known == title \in DOMAIN acc.node_id_map
        node_counter == IF known THEN acc.node_counter ELSE acc.node_counter + 1
        node_id == IF known THEN acc.node_id_map[title]
                   ELSE NodeId(clean_title(title), node_counter)
        node_id_map == [t \in (DOMAIN acc.node_id_map) \cup {title} |->
                           IF t = title THEN node_id ELSE acc.node_id_map[t]]
        subtree_width == calculate_subtree_width(node)
        children == node.children
        node_x == center_over_children(current_x, children)
        react_node == LayoutNode(node_id, title, level, node_x,
                                 START_Y + level * LEVEL_HEIGHT)
        with_node == [ nodes |-> Append(acc.nodes, react_node),
                       edges |-> IF parent_id # NoParent
                                 THEN Append(acc.edges, LayoutEdge(parent_id, node_id, 0))
                                 ELSE acc.edges,
                       node_id_map |-> node_id_map,
                       node_counter |-> node_counter ]
        with_children ==
            IF children # <<>>
            THEN position_nodes_horizontally(with_node, children, 1, level + 1,
                                             current_x, node_id)
            ELSE with_node
    IN position_nodes_horizontally(with_children, nodes_list, k + 1, level,
                                   current_x + subtree_width * NODE_WIDTH, parent_id)

\* the edges from the root to the top-level nodes, added after the positioning
RECURSIVE connect_top_level(_, _, _)
connect_top_level(hierarchy, node_id_map, root_node_id) ==
    IF hierarchy = <<>> THEN <<>>
    ELSE LET title == strip(Head(hierarchy).title)
             rest == connect_top_level(Tail(hierarchy), node_id_map, root_node_id)
         IN IF title # <<>> /\ title \in DOMAIN node_id_map
            THEN <<LayoutEdge(root_node_id, node_id_map[title], 0)>> \o rest
            ELSE rest

create_hierarchical_react_flow(document_title, hierarchy) ==
    LET with_root == Len(hierarchy) > 1
        root_node_id == NodeId(clean_title(document_title), 1)
        root_x == START_X + ((total_width(hierarchy) * NODE_WIDTH - NODE_WIDTH) \div 2)
        start == IF with_root
                 THEN [ nodes |-> <<LayoutNode(root_node_id, document_title, 0,
                                               root_x, START_Y)>>,
                        edges |-> <<>>, node_id_map |-> <<>>, node_counter |-> 1 ]
                 ELSE [ nodes |-> <<>>, edges |-> <<>>, node_id_map |-> <<>>,
                        node_counter |-> 0 ]
        positioned ==
            position_nodes_horizontally(start, hierarchy, 1,
                                        IF with_root THEN 1 ELSE 0, START_X,
                                        IF with_root THEN root_node_id ELSE NoParent)
    IN [ nodes |-> positioned.nodes,
         edges |-> IF with_root
                   THEN positioned.edges
                          \o connect_top_level(hierarchy, positioned.node_id_map,
                                               root_node_id)
                   ELSE positioned.edges ]

generate_react_flow_with_llm(hierarchy_titles) ==
    IF hierarchy_titles.hierarchy = <<>> THEN create_fallback_react_flow
    ELSE create_hierarchical_react_flow(hierarchy_titles.document_title,
                                        hierarchy_titles.hierarchy)

\* generate_react_flow with the layout it puts into react_flow_data
generate_react_flow_with_layout(s, outcome, e) ==
    LET update == generate_react_flow(s, outcome, e)
        hierarchy_titles == extract_hierarchy_titles(s.attachments)
    IN IF update.react_flow_data = "fallback"
       THEN [ react_flow_data |-> create_fallback_react_flow,
              processed_triples |-> <<>>,
              hierarchical_concepts |-> <<>>,
              error_message |-> update.error_message ]
       ELSE [ react_flow_data |-> generate_react_flow_with_llm(hierarchy_titles),
              processed_triples |-> <<>>,
              hierarchical_concepts |-> [titles |-> hierarchy_titles],
              error_message |-> update.error_message ]

\* hierarchical_concepts of generate_react_flow_data: keys holds the keys the
\* dict has ({} for None and for the empty dict), title is <<>> for None
NoConcepts ==
    [ keys |-> {}, nodes |-> <<>>, title |-> <<>>, document_level |-> <<>>,
      chapter_level |-> <<>>, section_level |-> <<>> ]

HeaderNodes == { <<>>, <<[label |-> <<Word("deep", "lower")>>, level |-> 1]>> }

HierarchicalConcepts ==
    { NoConcepts,
      [NoConcepts EXCEPT !.keys = {"document_level"},
                         !.document_level = <<<<Word("ai", "upper")>>>>] }
    \cup { [NoConcepts EXCEPT !.keys = {"nodes", "title"}, !.nodes = header_nodes,
                              !.title = title] :
             header_nodes \in HeaderNodes, title \in {<<>>, <<Word("ai", "title")>>} }

\* structural triples handed to generate_react_flow_data
LayoutTriples ==
    [source : RawLabels, target : RawLabels, relation : {<<Word("contains", "lower")>>}]

\* str.lower()
lower(text) == [k \in DOMAIN text |-> Word(text[k].base, IF text[k] = SP THEN "none" ELSE "lower")]

\* a in b
IsInfix(a, b) ==
    \E i \in 0..(Len(b) - Len(a)) : SubSeq(b, i + 1, i + Len(a)) = a

level_matches(node_label, concepts) ==
    \E k \in DOMAIN concepts :
        \/ IsInfix(lower(node_label), lower(concepts[k]))
        \/ IsInfix(lower(concepts[k]), lower(node_label))

determine_node_level(node_label, hierarchical_concepts) ==
    IF hierarchical_concepts.keys = {} \/ node_label = <<>> THEN 4
    ELSE IF level_matches(node_label, hierarchical_concepts.document_level) THEN 0
    ELSE IF level_matches(node_label, hierarchical_concepts.chapter_level) THEN 2
    ELSE IF level_matches(node_label, hierarchical_concepts.section_level) THEN 3
    ELSE 4

\* level_y_positions.get(level, 650)
level_y_position(level) == IF level \in 0..4 THEN 50 + level * 150 ELSE 650

\* list.append unless the label is already a key of the dict
add_label(labels, label) ==
    IF label = <<>> \/ \E k \in DOMAIN labels : labels[k] = label
    THEN labels ELSE Append(labels, label)

\* the keys of all_nodes, in insertion order
RECURSIVE all_nodes(_)
all_nodes(triples) ==
    IF triples = <<>> THEN <<>>
    ELSE LET before == all_nodes(SubSeq(triples, 1, Len(triples) - 1))
             triple == triples[Len(triples)]
         IN add_label(add_label(before, strip(triple.source)), strip(triple.target))

\* sorted(all_nodes.items(), key=level): stable
sorted_nodes(labels, hierarchical_concepts) ==
    Concat([l \in 1..5 |->
              SelectSeq(labels, LAMBDA label :
                  determine_node_level(label, hierarchical_concepts) = l - 1)])

create_hierarchical_layout(sorted, hierarchical_concepts) ==
    [i \in DOMAIN sorted |->
       LET level == determine_node_level(sorted[i], hierarchical_concepts)
           level_count ==
               Cardinality({h \in 1..(i - 1) :
                  determine_node_level(sorted[h], hierarchical_concepts) = level})
       IN [ id |-> NodeId(<<Word("node", "none")>>, i - 1),
            label |-> normalize_label(sorted[i]),
            level |-> level,
            x |-> 100 + level_count * 300,
            y |-> level_y_position(level),
            original_label |-> sorted[i] ]]

\* label_to_id.get(label): NoParent for None
id_of(positioned_nodes, label) ==
    IF \E k \in DOMAIN positioned_nodes : positioned_nodes[k].original_label = label
    THEN positioned_nodes[CHOOSE k \in DOMAIN positioned_nodes :
                             positioned_nodes[k].original_label = label].id
    ELSE NoParent

\* the edges of the triples whose two endpoints are known, distinct nodes
RECURSIVE edges_from_triples(_, _)
edges_from_triples(triples, positioned_nodes) ==
    IF triples = <<>> THEN <<>>
    ELSE LET before == edges_from_triples(SubSeq(triples, 1, Len(triples) - 1),
                                          positioned_nodes)
             triple == triples[Len(triples)]
             source_id == id_of(positioned_nodes, strip(triple.source))
             target_id == id_of(positioned_nodes, strip(triple.target))
         IN IF source_id # NoParent /\ target_id # NoParent /\ source_id # target_id
            THEN Append(before, LayoutEdge(source_id, target_id, Len(before)))
            ELSE before

\* header position: the first node of the level with the same label gives
\* the sibling index (the bounded nodes carry no parent_headers)
calculate_hierarchical_position(node_data, structure_nodes) ==
    LET same_level_nodes ==
            SelectSeq(structure_nodes, LAMBDA n : n.level = node_data.level)
        sibling_index ==
            (CHOOSE i \in DOMAIN same_level_nodes :
                /\ same_level_nodes[i].label = node_data.label
                /\ \A h \in 1..(i - 1) : same_level_nodes[h].label # node_data.label) - 1
    IN [x |-> 100 + sibling_index * 250, y |-> level_y_position(node_data.level)]

generate_react_flow_from_structure(hierarchical_structure, triples) ==
    LET structure_nodes == hierarchical_structure.nodes
        title == hierarchical_structure.title
        title_nodes ==
            IF title # <<>> /\ \A k \in DOMAIN structure_nodes :
                                  structure_nodes[k].label # title
            THEN << [ id |-> NodeId(<<Word("title-node", "none")>>, 0),
                      label |-> normalize_label(title), level |-> 0,
                      x |-> 400, y |-> 50, original_label |-> title ] >>
            ELSE <<>>
        header_nodes ==
            [i \in DOMAIN structure_nodes |->
               LET position == calculate_hierarchical_position(structure_nodes[i],
                                                               structure_nodes)
               IN [ id |-> NodeId(<<Word("header", "none")>>, i - 1),
                    label |-> normalize_label(structure_nodes[i].label),
                    level |-> structure_nodes[i].level,
                    x |-> position.x, y |-> position.y,
                    original_label |-> structure_nodes[i].label ]]
    IN [ nodes |-> title_nodes \o header_nodes,
         edges |-> edges_from_triples(triples, title_nodes \o header_nodes) ]

generate_react_flow_data(triples, hierarchical_concepts) ==
    IF "nodes" \in hierarchical_concepts.keys
    THEN generate_react_flow_from_structure(hierarchical_concepts, triples)
    ELSE IF triples = <<>>
    THEN [ nodes |-> << [ id |-> NodeId(<<Word("empty-node", "none")>>, 0),
                          label |-> <<Word("No document structure found", "none")>>,
                          level |-> NoLevel, x |-> 250, y |-> 150,
                          original_label |-> <<>> ] >>,
           edges |-> <<>> ]
    ELSE LET positioned_nodes ==
                 create_hierarchical_layout(
                     sorted_nodes(all_nodes(triples), hierarchical_concepts),
                     hierarchical_concepts)
         IN [ nodes |-> positioned_nodes,
              edges |-> edges_from_triples(triples, positioned_nodes) ]

generate_hierarchical_react_flow_data(hierarchical_concepts, triples) ==
    IF hierarchical_concepts.keys = {} /\ triples = <<>>
    THEN generate_react_flow_data(<<>>, NoConcepts)
    ELSE generate_react_flow_data(triples, hierarchical_concepts)

\* the node generate_react_flow of the concept-map workflow, with its layout
layout_generate_react_flow ==
    /\ wf = "layout"
    /\ pc = "generate_react_flow"
    /\ \E outcome \in {"ok", "raise"} :
         UpdateStep("generate_react_flow",
                    generate_react_flow_with_layout(state, outcome, "exception"), END)
    /\ UNCHANGED <<wf, chat_vars, locals, route, self, verdict, context,
                   chunks_collection, maps_collection>>

\* a call of generate_react_flow_data with the arguments held in locals
layout_generate_react_flow_data ==
    /\ wf = "layout"
    /\ pc = "generate_react_flow_data"
    /\ response' = generate_react_flow_data(locals.triples, locals.hierarchical_concepts)
    /\ invoked' = Append(invoked, "generate_react_flow_data")
    /\ pc' = END
    /\ UNCHANGED <<wf, state, locals, chat_collection, requests, route, raised,
                   errored, self, verdict, context, chunks_collection,
                   maps_collection>>

\* a call of generate_hierarchical_react_flow_data
layout_generate_hierarchical_react_flow_data ==
    /\ wf = "layout"
    /\ pc = "generate_hierarchical_react_flow_data"
    /\ response' = generate_hierarchical_react_flow_data(locals.hierarchical_concepts,
                                                         locals.triples)
    /\ invoked' = Append(invoked, "generate_hierarchical_react_flow_data")
    /\ pc' = END
    /\ UNCHANGED <<wf, state, locals, chat_collection, requests, route, raised,
                   errored, self, verdict, context, chunks_collection,
                   maps_collection>>

\* the GraphState generate_react_flow is invoked with
LayoutInitialStates ==
    { [ attachments |-> attachments, hierarchical_chunks |-> hierarchical_chunks,
        react_flow_data |-> None, processed_triples |-> <<>>,
        hierarchical_concepts |-> <<>>, error_message |-> None ] :
        attachments \in SeqsUpTo(Attachments, MaxAttachments),
        hierarchical_chunks \in {<<>>, <<1>>} }

\* the arguments of a call of generate_react_flow_data
LayoutArguments ==
    [ triples : SeqsUpTo(LayoutTriples, MaxTriples),
      hierarchical_concepts : HierarchicalConcepts ]

NoArguments == [ triples |-> <<>>, hierarchical_concepts |-> NoConcepts ]

LayoutInit ==
    /\ wf = "layout"
    /\ pc \in {"generate_react_flow", "generate_react_flow_data",
               "generate_hierarchical_react_flow_data"}
    /\ IF pc = "generate_react_flow"
       THEN state \in LayoutInitialStates /\ locals = NoArguments
       ELSE /\ state = [ attachments |-> <<>>, hierarchical_chunks |-> <<>>,
                         react_flow_data |-> None, processed_triples |-> <<>>,
                         hierarchical_concepts |-> <<>>, error_message |-> None ]
            /\ locals \in LayoutArguments
    /\ invoked = <<>>
    /\ route = "none"
    /\ raised = FALSE
    /\ errored = FALSE
    /\ self = [web_search_tool |-> FALSE, structured |-> TRUE, vector_store |-> TRUE]
    /\ verdict = NoVerdict
    /\ context = <<>>
    /\ chunks_collection = <<>>
    /\ maps_collection = <<>>
    /\ chat_collection = <<>>
    /\ requests = <<>>
    /\ response = None

LayoutNext ==
    \/ layout_generate_react_flow
    \/ layout_generate_react_flow_data
    \/ layout_generate_hierarchical_react_flow_data

LayoutSpec == LayoutInit /\ [][LayoutNext]_vars

(***************************************************************************)
(* Outline extraction and mind-map optimization in detail                  *)
(* (document_processing_nodes.py).  An outline is a sequence of lines, a   *)
(* line is its number of leading spaces and its text after them, a text is *)
(* a sequence of words.  The empty outline stands for None and for "".     *)
(***************************************************************************)
MaxSections == 2

OutlineLine(spaces, text) == [spaces |-> spaces, text |-> text]

TopicA == <<Word("topic", "title"), SP, Word("a", "upper")>>
TopicALower == <<Word("topic", "lower"), SP, Word("a", "lower")>>
TopicB == <<Word("topic", "title"), SP, Word("b", "upper")>>
TopicC == <<Word("topic", "title"), SP, Word("c", "upper")>>
Preamble == <<Word("here", "title"), SP, Word("is", "lower")>>
Bullet == Word("-", "none")

\* what the outline chain can answer for a section
LlmOutlines ==
    { <<>>,
      << OutlineLine(0, Preamble), OutlineLine(0, TopicA),
         OutlineLine(2, <<Bullet, SP>> \o TopicB), OutlineLine(3, TopicALower) >>,
      << OutlineLine(2, TopicALower), OutlineLine(4, TopicC) >>,
      << OutlineLine(0, TopicA), OutlineLine(9, TopicB) >>,
      << OutlineLine(0, <<Word("ab", "lower")>>), OutlineLine(2, <<>>) >>,
      << OutlineLine(0, TopicB), OutlineLine(2, TopicC), OutlineLine(2, TopicALower) >> }

\* the result of a section's task under gather(return_exceptions=True)
SectionResults ==
    [type : {"outline"}, outline : LlmOutlines]
        \cup {[type |-> "exception", outline |-> <<>>]}

\* str.strip("- *..."): the bullet characters and blanks removed at both ends
RECURSIVE strip_bullets(_)
strip_bullets(text) ==
    IF text = <<>> THEN <<>>
    ELSE IF Head(text) \in {SP, Bullet} THEN strip_bullets(Tail(text))
    ELSE IF text[Len(text)] \in {SP, Bullet}
    THEN strip_bullets(SubSeq(text, 1, Len(text) - 1))
    ELSE text

\* len(text)
RECURSIVE text_length(_)
text_length(text) ==
    IF text = <<>> THEN 0 ELSE Len(Head(text).base) + text_length(Tail(text))

\* line.strip().startswith(("**", "Here", "The", "This", "Outline:", "Format")),
\* for texts whose first word is none of these unless it is one of them
starts_with_explanation(text) ==
    /\ strip(text) # <<>>
    /\ Head(strip(text)) \in
          { Word("**", "none"), Word("here", "title"), Word("the", "title"),
            Word("this", "title"), Word("outline:", "title"),
            Word("format", "title") }

\* _clean_outline_text from the k-th line on, with the labels seen so far
RECURSIVE clean_outline_lines(_, _, _)
clean_outline_lines(lines, k, seen_labels) ==
    IF k > Len(lines) THEN <<>>
    ELSE
    LET line == lines[k]
        level == Min({line.spaces \div 2, 3})
        cleaned_content == strip(strip_bullets(line.text))
        cleaned_lower == lower(cleaned_content)
    IN IF \/ strip(line.text) = <<>>
          \/ starts_with_explanation(line.text)
          \/ text_length(cleaned_content) <= 2
          \/ cleaned_lower \in seen_labels
       THEN clean_outline_lines(lines, k + 1, seen_labels)
       ELSE <<OutlineLine(2 * level, cleaned_content)>>
              \o clean_outline_lines(lines, k + 1, seen_labels \cup {cleaned_lower})

clean_outline_text(outline_text) == clean_outline_lines(outline_text, 1, {})

\* gather without return_exceptions: the first failed section fails them all
process_sections_fail_fast(results) ==
    IF \E i \in DOMAIN results : results[i].type = "exception"
    THEN [raised |-> TRUE, section_outlines |-> <<>>]
    ELSE [ raised |-> FALSE,
           section_outlines |->
              SelectSeq([i \in DOMAIN results |-> clean_outline_text(results[i].outline)],
                        LAMBDA outline : outline # <<>>) ]

\* _process_sections_parallel on the results the section tasks ended with:
\* the cleaned outlines of the sections that did not fail, in section order
process_sections_parallel(results) ==
    [ raised |-> FALSE,
      section_outlines |->
         SelectSeq([i \in DOMAIN results |->
                      IF results[i].type = "exception" THEN <<>>
                      ELSE clean_outline_text(results[i].outline)],
                   LAMBDA outline : outline # <<>>) ]

\* extract_outline_node on the results of the section tasks; outcome "raise"
\* is an exception before the tasks are awaited (no API key, client set-up)
extract_outline_from_sections(s, outcome, results) ==
    LET processed == process_sections_parallel(results)
        valid_outlines == processed.section_outlines
    IN IF ~Truthy(s.raw_content)
       THEN set_error(s, "No raw content available for outline extraction")
       ELSE IF outcome = "raise"
       THEN set_error(s, "Outline extraction failed")
       ELSE IF results = <<>>
       THEN set_error(s, "No content sections to process")
       ELSE IF processed.raised
       THEN set_error(s, "Outline extraction failed")
       ELSE IF valid_outlines = <<>>
       THEN set_error(s, "No valid outline content extracted")
       ELSE transition_stage([s EXCEPT !.outline_text = Concat(valid_outlines)],
                             "outline_extracted")

\* a node of the parsed tree: parent is the position of its parent in the list
\* of nodes (0 for the root), line the position of the line it was made from
\* among the non-empty lines (0 for the fallback root)
TreeNode(label, parent, line) == [label |-> label, parent |-> parent, line |-> line]

non_empty_lines(outline_text) ==
    SelectSeq(outline_text, LAMBDA line : strip(line.text) # <<>>)

\* the first top-level line, or the first line when none is top-level
root_line(lines) ==
    IF \E k \in DOMAIN lines : lines[k].spaces = 0
    THEN Min({k \in DOMAIN lines : lines[k].spaces = 0})
    ELSE 1

\* the loop of _parse_outline_to_hierarchy from the k-th line on; node_stack
\* holds the positions of the nodes on the current path
RECURSIVE parse_lines(_, _, _, _, _, _)
parse_lines(lines, k, root_label, tree, used_labels, node_stack) ==
    IF k > Len(lines) THEN tree
    ELSE
    LET line == lines[k]
        level == line.spaces \div 2
        label == strip(line.text)
        kept_stack == SubSeq(node_stack, 1, Min({Len(node_stack), level + 1}))
    IN IF label = root_label \/ lower(label) \in used_labels
       THEN parse_lines(lines, k + 1, root_label, tree, used_labels, node_stack)
       ELSE parse_lines(lines, k + 1, root_label,
                        Append(tree, TreeNode(label, kept_stack[Len(kept_stack)], k)),
                        used_labels \cup {lower(label)},
                        Append(kept_stack, Len(tree) + 1))

\* a root made from the first line, whatever its indentation
parse_outline_first_line_root(outline_text, fallback_name) ==
    LET lines == non_empty_lines(outline_text) IN
    IF lines = <<>> THEN <<TreeNode(fallback_name, 0, 0)>>
    ELSE parse_lines(lines, 1, strip(lines[1].text),
                     <<TreeNode(strip(lines[1].text), 0, 1)>>,
                     {lower(strip(lines[1].text))}, <<1>>)

\* _parse_outline_to_hierarchy: the nodes of the tree in the order they are made
parse_outline_to_hierarchy(outline_text, fallback_name) ==
    LET lines == non_empty_lines(outline_text) IN
    IF lines = <<>> THEN <<TreeNode(fallback_name, 0, 0)>>
    ELSE LET root_label == strip(lines[root_line(lines)].text) IN
         parse_lines(lines, 1, root_label,
                     <<TreeNode(root_label, 0, root_line(lines))>>,
                     {lower(root_label)}, <<1>>)

\* what the optimization chain can do: fail, or answer an outline
OptimizerResults == SectionResults

\* an optimizer whose empty result replaces the outline
optimize_keeps_empty_result(merged_outline, result) ==
    IF result.type = "exception" THEN merged_outline
    ELSE clean_outline_text(result.outline)

\* _optimize_mind_map_structure on the result of the optimization chain
optimize_mind_map_structure(merged_outline, result) ==
    IF result.type = "exception" THEN merged_outline
    ELSE IF clean_outline_text(result.outline) # <<>>
    THEN clean_outline_text(result.outline)
    ELSE merged_outline

\* state.get("original_filename", "Document") without its extension
FallbackName == <<Word("document", "title")>>

\* optimize_mind_map_node; outcome "raise" is an exception outside the
\* optimization chain (the construction of the model client)
optimize_mind_map_from_outline(s, outcome, result) ==
    IF s.outline_text = <<>>
    THEN set_error(s, "No outline text available for optimization")
    ELSE IF outcome = "raise"
    THEN set_error(s, "Mind map optimization failed")
    ELSE LET optimized_outline == optimize_mind_map_structure(s.outline_text, result)
         IN transition_stage(
               [s EXCEPT !.outline_text = optimized_outline,
                         !.hierarchical_data =
                            parse_outline_to_hierarchy(optimized_outline, FallbackName)],
               "mind_map_generated")

\* the locals of the two nodes: the results of the section tasks, the outline
\* handed to the optimizer and the result of the optimization chain
NoOutlineLocals ==
    [ results |-> <<>>, merged_outline |-> <<>>,
      optimizer |-> [type |-> "none", outline |-> <<>>] ]

outline_extract_outline ==
    /\ wf = "outline"
    /\ pc = "extract_outline"
    /\ \E outcome \in {"ok", "raise"} :
       \E n \in 1..MaxSections :
       \E results \in IF outcome = "raise" THEN {<<>>} ELSE [1..n -> SectionResults] :
          /\ DocStep("extract_outline",
                     extract_outline_from_sections(state, outcome, results))
          /\ locals' = [locals EXCEPT !.results = results]
    /\ UNCHANGED <<wf, chat_vars, self, verdict, context, chunks_collection,
                   maps_collection>>

outline_optimize_mind_map ==
    /\ wf = "outline"
    /\ pc = "optimize_mind_map"
    /\ \E outcome \in {"ok", "raise"} : \E result \in OptimizerResults :
          /\ DocStep("optimize_mind_map",
                     optimize_mind_map_from_outline(state, outcome, result))
          /\ locals' = [locals EXCEPT
                           !.merged_outline = state.outline_text,
                           !.optimizer = IF outcome = "raise"
                                         THEN [type |-> "raise", outline |-> <<>>]
                                         ELSE result]
    /\ UNCHANGED <<wf, chat_vars, self, verdict, context, chunks_collection,
                   maps_collection>>

\* the state extract_outline_node is invoked with
OutlineInit ==
    /\ wf = "outline"
    /\ pc = "extract_outline"
    /\ state = [DocInitialState EXCEPT !.raw_content = "markdown",
                                       !.outline_text = <<>>,
                                       !.hierarchical_data = <<>>,
                                       !.stage = "content_extracted",
                                       !.processing_start_time = "t0"]
    /\ locals = NoOutlineLocals
    /\ invoked = <<>>
    /\ route = "none"
    /\ raised = FALSE
    /\ errored = FALSE
    /\ self = [web_search_tool |-> FALSE, structured |-> TRUE, vector_store |-> TRUE]
    /\ verdict = NoVerdict
    /\ context = <<>>
    /\ chunks_collection = <<>>
    /\ maps_collection = <<>>
    /\ chat_collection = <<>>
    /\ requests = <<>>
    /\ response = None

OutlineNext ==
    \/ outline_extract_outline
    \/ outline_optimize_mind_map

OutlineSpec == OutlineInit /\ [][OutlineNext]_vars

(***************************************************************************)
(* Concurrent calls of execute_document_processing (graph_builder.py).     *)
(* Every call builds its own compiled graph with its own MemorySaver and   *)
(* runs it on the thread "doc_proc_<map_id>"; the calls interleave at the  *)
(* awaits of their supersteps.  In this specification `requests` holds the *)
(* calls, `locals` the MemorySaver objects created so far, and the two     *)
(* collections hold what the runs persisted.                               *)
(***************************************************************************)
MaxRuns == 2

Runs == 1..MaxRuns

UserIds == {"u1"}

MapIds == {"m1", "m2"}

\* each call is made for a file of its own
FilePaths == <<<<"file", 1>>, <<"file", 2>>, <<"file", 3>>>>

\* initial_state of execute_document_processing, with the arguments of the call
DocumentProcessingState(user_id, map_id, file_path) ==
    [ user_id |-> user_id,
      map_id |-> map_id,
      file_path |-> file_path,
      raw_content |-> None,
      outline_text |-> None,
      hierarchical_data |-> None,
      chunks |-> <<>>,
      stage |-> "initialized",
      error_message |-> None,
      retry_count |-> 0,
      processing_start_time |-> None,
      processing_end_time |-> None ]

\* the keys the initial_state dict of the call carries
InitialStateKeys == DOMAIN DocumentProcessingState("", "", <<>>) \ {"outline_text"}

\* thread_id of the ainvoke config
doc_thread_id(map_id) == <<"doc_proc_", map_id>>

\* a checkpointer is the set of its latest checkpoints, one per thread
MemorySaver == {}

get_tuple(saver, thread_id) == {c \in saver : c.thread_id = thread_id}

put(saver, thread_id, values) ==
    {c \in saver : c.thread_id # thread_id}
        \cup {[thread_id |-> thread_id, values |-> values]}

\* one compiled graph, and so one checkpointer, serves every call
create_graph_with_shared_saver(savers) ==
    IF savers = <<>>
    THEN [savers |-> <<MemorySaver>>, checkpointer |-> 1]
    ELSE [savers |-> savers, checkpointer |-> 1]

\* create_document_processing_graph: compiles a graph around a new MemorySaver
create_document_processing_graph(savers) ==
    [savers |-> Append(savers, MemorySaver), checkpointer |-> Len(savers) + 1]

\* the channel values ainvoke starts from: the input, written over the
\* thread's latest checkpoint of the graph's checkpointer when there is one
channel_values(saver, thread_id, input) ==
    IF get_tuple(saver, thread_id) = {} THEN input
    ELSE LET checkpoint == CHOOSE c \in get_tuple(saver, thread_id) : TRUE IN
         [k \in DOMAIN input |->
             IF k \in InitialStateKeys THEN input[k] ELSE checkpoint.values[k]]

\* what the external collaborators of a node can answer
NodeResponses(node) ==
    CASE node = "extract_content" ->
            {[outcome |-> o, n |-> 0] : o \in {"ok", "empty", "raise"}}
      [] node = "extract_outline" ->
            {[outcome |-> o, n |-> 0] :
                o \in {"ok", "no_sections", "no_valid_outlines", "raise"}}
      [] node = "chunk_content" ->
            {[outcome |-> o, n |-> n] : o \in {"ok", "raise"}, n \in 0..MaxChunks}
      [] node = "embed_and_store" ->
            {[outcome |-> o, n |-> 0] :
                o \in {"ok", "raise_before_insert", "raise_after_insert"}}
      [] OTHER -> {[outcome |-> o, n |-> 0] : o \in {"ok", "raise"}}

\* the node function the graph registers under `node`
doc_node(node, s, resp) ==
    CASE node = "extract_content" -> extract_content_node(s, resp.outcome)
      [] node = "extract_outline" -> extract_outline_node(s, resp.outcome)
      [] node = "optimize_mind_map" -> optimize_mind_map_node(s, resp.outcome)
      [] node = "chunk_content" -> chunk_content_node(s, resp.outcome, resp.n)
      [] node = "embed_and_store" -> embed_and_store_node(s, resp.outcome)
      [] OTHER -> finalize_processing_node(s, resp.outcome)

\* except branch of execute_document_processing for the call's own initial_state
doc_except(initial_state, e) ==
    [initial_state EXCEPT !.stage = "failed", !.error_message = e]

\* one superstep of a compiled document graph on the run's own channel values
doc_superstep(node, s, resp) ==
    LET s1 == doc_node(node, s, resp) IN
    IF node = "finalize" THEN [state |-> s1, pc |-> END, raised |-> FALSE]
    ELSE LET r == route_document_processing(s1.stage, s1.error_message) IN
         IF r \in DOMAIN DocPathMap[node]
         THEN [state |-> s1, pc |-> DocPathMap[node][r], raised |-> FALSE]
         ELSE [state |-> s1, pc |-> END, raised |-> TRUE]

\* the chunk records a superstep leaves in the chunks collection
chunk_documents(node, s, resp) ==
    IF node # "embed_and_store" THEN <<>>
    ELSE LET stored == embed_and_store_inserts(s, resp.outcome) IN
         [i \in DOMAIN stored |->
             [text |-> stored[i], embedding |-> "vector",
              user_id |-> s.user_id, map_id |-> s.map_id,
              chunk_id |-> <<s.file_path, stored[i]>>]]

\* the map documents a superstep leaves in the maps collection
map_documents(node, s, resp) ==
    IF node # "finalize" THEN <<>>
    ELSE [i \in DOMAIN finalize_inserts(s, resp.outcome) |->
             [user_id |-> s.user_id, map_id |-> s.map_id, file_path |-> s.file_path]]

\* insert_one of finalize_processing_node meets a map document with its _id
duplicate_key(node, s) ==
    /\ node = "finalize"
    /\ Truthy(s.hierarchical_data)
    /\ \E i \in DOMAIN maps_collection : maps_collection[i].map_id = s.map_id

\* dict.get(key, default): the default only stands in for a missing key
dict_get(d, key, default) == IF key \in DOMAIN d THEN d[key] ELSE default

\* MindMapResponse with its AttachmentInfo
MindMapResponse(status, error_message, hierarchical_data) ==
    [ status |-> status,
      error_message |-> error_message,
      hierarchical_data |-> hierarchical_data,
      attachment |-> [status |-> status, error_message |-> error_message] ]

NoPayload == MindMapResponse("processing", None, None)

\* the error message of the else branch of process_document_and_generate_mindmap
error_msg(result) ==
    dict_get(result, "error_message", <<"Processing failed at stage: ", result.stage>>)

\* VizMindAIService.process_document_and_generate_mindmap after the workflow
\* returned `result`
process_document_and_generate_mindmap(result) ==
    IF result.stage = "completed"
    THEN IF Truthy(result.hierarchical_data)
         THEN MindMapResponse("success", None, result.hierarchical_data)
         ELSE MindMapResponse("error", "No hierarchical data generated", None)
    ELSE MindMapResponse("error", error_msg(result), None)

NoRun ==
    [ status |-> "idle",
      initial_state |-> DocumentProcessingState("", "", <<>>),
      checkpointer |-> 0,
      thread_id |-> <<>>,
      pc |-> END,
      state |-> DocumentProcessingState("", "", <<>>),
      heard |-> <<>>,
      peers |-> {},
      payload |-> NoPayload ]

InFlight(r) == requests[r].status = "running"

\* the call up to its first await: initial_state, a new graph, ainvoke entered
run_execute_document_processing(r) ==
    /\ wf = "runs"
    /\ requests[r].status = "idle"
    /\ \E user_id \in UserIds, map_id \in MapIds :
          LET initial_state == DocumentProcessingState(user_id, map_id, FilePaths[r])
              graph == create_document_processing_graph(locals)
              thread_id == doc_thread_id(map_id)
              values == channel_values(graph.savers[graph.checkpointer],
                                       thread_id, initial_state)
          IN /\ requests' = [requests EXCEPT ![r] =
                    [ status |-> "running",
                      initial_state |-> initial_state,
                      checkpointer |-> graph.checkpointer,
                      thread_id |-> thread_id,
                      pc |-> "extract_content",
                      state |-> values,
                      heard |-> <<>>,
                      peers |-> {},
                      payload |-> NoPayload ]]
             /\ locals' = [graph.savers EXCEPT ![graph.checkpointer] =
                               put(@, thread_id, values)]
    /\ UNCHANGED <<wf, pc, state, invoked, route, raised, errored, self, verdict,
                   context, chunks_collection, maps_collection, chat_collection,
                   response>>

\* one superstep of the call's graph: the node runs on the run's channel values,
\* the conditional edge is evaluated and the checkpoint of the thread is saved
run_superstep(r) ==
    /\ wf = "runs"
    /\ InFlight(r)
    /\ LET run == requests[r] IN
       \E resp \in NodeResponses(run.pc) :
          /\ duplicate_key(run.pc, run.state) => resp.outcome = "raise"
          /\ LET step == doc_superstep(run.pc, run.state, resp)
                 final == IF step.raised
                          THEN doc_except(run.initial_state, "exception")
                          ELSE step.state
             IN /\ requests' = [requests EXCEPT ![r] =
                       [run EXCEPT
                           !.status = IF step.pc = END THEN "returned" ELSE "running",
                           !.pc = step.pc,
                           !.state = final,
                           !.heard = Append(@, [node |-> run.pc,
                                                outcome |-> resp.outcome,
                                                n |-> resp.n]),
                           !.peers = @ \cup {q \in Runs \ {r} : InFlight(q)} ]]
                /\ locals' = [locals EXCEPT ![run.checkpointer] =
                                  put(@, run.thread_id, step.state)]
                /\ chunks_collection' =
                       chunks_collection \o chunk_documents(run.pc, run.state, resp)
                /\ maps_collection' =
                       maps_collection \o map_documents(run.pc, run.state, resp)
    /\ UNCHANGED <<wf, pc, state, invoked, route, raised, errored, self, verdict,
                   context, chat_collection, response>>

\* graph.ainvoke raises outside the nodes: the except branch returns the call's
\* initial_state marked failed
run_executor_raises(r) ==
    /\ wf = "runs"
    /\ InFlight(r)
    /\ \E e \in ExcText :
          requests' = [requests EXCEPT ![r] =
              [requests[r] EXCEPT
                  !.status = "returned",
                  !.pc = END,
                  !.state = doc_except(requests[r].initial_state, e),
                  !.heard = Append(@, [node |-> "ainvoke", outcome |-> e, n |-> 0]),
                  !.peers = @ \cup {q \in Runs \ {r} : InFlight(q)} ]]
    /\ UNCHANGED <<wf, pc, state, invoked, route, raised, errored, self, verdict,
                   context, chunks_collection, maps_collection, chat_collection,
                   response, locals>>

\* the service method resumes with the result of the workflow and returns
run_process_document_and_generate_mindmap(r) ==
    /\ wf = "runs"
    /\ requests[r].status = "returned"
    /\ requests' = [requests EXCEPT ![r] =
          [requests[r] EXCEPT
              !.status = "answered",
              !.payload = process_document_and_generate_mindmap(requests[r].state)]]
    /\ UNCHANGED <<wf, pc, state, invoked, route, raised, errored, self, verdict,
                   context, chunks_collection, maps_collection, chat_collection,
                   response, locals>>

RunsInit ==
    /\ wf = "runs"
    /\ pc = END
    /\ state = DocInitialState
    /\ invoked = <<>>
    /\ route = "none"
    /\ raised = FALSE
    /\ errored = FALSE
    /\ self = [web_search_tool |-> FALSE, structured |-> TRUE, vector_store |-> TRUE]
    /\ verdict = NoVerdict
    /\ context = <<>>
    /\ chunks_collection = <<>>
    /\ maps_collection = <<>>
    /\ chat_collection = <<>>
    /\ requests = [r \in Runs |-> NoRun]
    /\ response = None
    /\ locals = <<>>

RunsNext ==
    \/ \E r \in Runs : run_execute_document_processing(r)
    \/ \E r \in Runs : run_superstep(r)
    \/ \E r \in Runs : run_executor_raises(r)
    \/ \E r \in Runs : run_process_document_and_generate_mindmap(r)

RunsSpec == RunsInit /\ [][RunsNext]_vars

(***************************************************************************)
(* Ingestion and retrieval on the chunks collection: chunk_content_node    *)
(* and embed_and_store_node persist the chunks of uploaded documents,      *)
(* RAGNodes.retrieve_from_mongodb searches the collection behind its       *)
(* ownership pre-filter.  A stored document is the record of its fields.   *)
(***************************************************************************)
MaxIngests == 2

Owners == {"u1", "u2"}

\* the state chunk_content_node is invoked with for the n-th uploaded document
IngestState(user_id, map_id, n) ==
    [DocumentProcessingState(user_id, map_id, FilePaths[n]) EXCEPT
        !.raw_content = "markdown",
        !.outline_text = "optimized",
        !.hierarchical_data = "tree",
        !.stage = "mind_map_generated",
        !.processing_start_time = "t0"]

\* retriever_filter of retrieve_from_mongodb
retriever_filter(s) ==
    [user_id |-> s.user_id, concept_map_id |-> s.concept_map_id]

\* an equality filter matches a document that holds every field of the filter
\* with the filter's value
matches(doc, filter) ==
    \A k \in DOMAIN filter : k \in DOMAIN doc /\ doc[k] = filter[k]

\* the documents the vector search ranks: those the pre_filter lets through
pre_filter(collection, filter) ==
    SelectSeq(collection, LAMBDA doc : matches(doc, filter))

\* the k best matches: some k of the candidates, all of them when there are fewer
similarity_search(candidates, k) ==
    {found \in SUBSET {candidates[i] : i \in DOMAIN candidates} :
        Cardinality(found) = IF Len(candidates) < k THEN Len(candidates) ELSE k}

NoRetrieval ==
    [ retrieved |-> FALSE, user_id |-> "", concept_map_id |-> "",
      candidates |-> <<>>, db_documents |-> {}, error_message |-> None ]

ingest_chunk_content ==
    /\ wf = "ingest"
    /\ pc = "chunk_content"
    /\ \E resp \in NodeResponses("chunk_content") :
          LET step == doc_superstep("chunk_content", state, resp) IN
          /\ state' = step.state
          /\ pc' = step.pc
    /\ invoked' = Append(invoked, "chunk_content")
    /\ UNCHANGED <<wf, route, raised, errored, self, verdict, context,
                   chunks_collection, maps_collection, locals, chat_vars>>

ingest_embed_and_store ==
    /\ wf = "ingest"
    /\ pc = "embed_and_store"
    /\ \E resp \in NodeResponses("embed_and_store") :
          LET step == doc_superstep("embed_and_store", state, resp) IN
          /\ state' = step.state
          /\ pc' = step.pc
          /\ chunks_collection' =
                chunks_collection \o chunk_documents("embed_and_store", state, resp)
    /\ invoked' = Append(invoked, "embed_and_store")
    /\ UNCHANGED <<wf, route, raised, errored, self, verdict, context,
                   maps_collection, locals, chat_vars>>

\* the next document is uploaded and its run reaches chunk_content_node
ingest_next_document ==
    /\ wf = "ingest"
    /\ pc \in {"finalize", END}
    /\ locals < MaxIngests
    /\ locals' = locals + 1
    /\ \E user_id \in Owners, map_id \in MapIds :
          state' = IngestState(user_id, map_id, locals + 1)
    /\ pc' = "chunk_content"
    /\ UNCHANGED <<wf, invoked, route, raised, errored, self, verdict, context,
                   chunks_collection, maps_collection, chat_vars>>

\* RAGNodes.retrieve_from_mongodb for a question on (user_id, concept_map_id)
ingest_retrieve_from_mongodb ==
    /\ wf = "ingest"
    /\ \E user_id \in Owners, concept_map_id \in MapIds, k \in {1, 3},
          outcome \in {"ok", "raise"} :
          LET s == [user_id |-> user_id, concept_map_id |-> concept_map_id,
                    top_k_retriever |-> k]
              candidates == pre_filter(chunks_collection, retriever_filter(s))
          IN \E found \in similarity_search(candidates, s.top_k_retriever) :
                response' =
                    [ retrieved |-> TRUE,
                      user_id |-> user_id,
                      concept_map_id |-> concept_map_id,
                      candidates |-> candidates,
                      db_documents |-> IF outcome = "ok" /\ self.vector_store
                                       THEN found ELSE {},
                      error_message |->
                          IF ~self.vector_store
                          THEN "MongoDB Vector Store not available."
                          ELSE IF outcome = "raise" THEN "DB retrieval failed"
                          ELSE None ]
    /\ UNCHANGED <<workflow_vars, chat_collection, requests>>

IngestInit ==
    /\ wf = "ingest"
    /\ pc = "chunk_content"
    /\ \E user_id \in Owners, map_id \in MapIds : state = IngestState(user_id, map_id, 1)
    /\ locals = 1
    /\ invoked = <<>>
    /\ route = "none"
    /\ raised = FALSE
    /\ errored = FALSE
    /\ self = [web_search_tool |-> FALSE, structured |-> TRUE, vector_store |-> TRUE]
    /\ verdict = NoVerdict
    /\ context = <<>>
    /\ chunks_collection = <<>>
    /\ maps_collection = <<>>
    /\ chat_collection = <<>>
    /\ requests = <<>>
    /\ response = NoRetrieval

IngestNext ==
    \/ ingest_chunk_content
    \/ ingest_embed_and_store
    \/ ingest_next_document
    \/ ingest_retrieve_from_mongodb

IngestSpec == IngestInit /\ [][IngestNext]_vars

(***************************************************************************)
(* The lazy getters of the compiled graphs: get_langgraph_app over         *)
(* build_graph_instance (cmvs_builder.py) and get_rag_app over             *)
(* build_rag_graph (rag_builder.py).  The getters are plain functions      *)
(* called from coroutines: a call runs to its end before another task is   *)
(* scheduled, and the tasks interleave at the await of the graph run.  In  *)
(* this specification `locals` holds the two module globals and the number *)
(* of graphs compiled, `requests` the tasks.  A compiled graph is named by *)
(* the number of its compilation; 0 stands for None.                       *)
(***************************************************************************)
MaxTasks == 3

MaxCalls == 2

Tasks == 1..MaxTasks

Getters == {"cmvs_langgraph_app", "rag_graph_app"}

\* a compilation that does not store its graph in the module global
build_graph_instance_not_cached(app, compiled, outcome) ==
    IF outcome = "raise" THEN [app |-> app, compiled |-> compiled, returned |-> 0]
    ELSE [app |-> app, compiled |-> compiled + 1, returned |-> compiled + 1]

\* build_graph_instance / build_rag_graph: `app` is the module global,
\* `compiled` the number of graphs compiled so far; an exception of the node
\* object's constructor or of compile() leaves the global as it was
build_graph_instance(app, compiled, outcome) ==
    IF app # 0 THEN [app |-> app, compiled |-> compiled, returned |-> app]
    ELSE IF outcome = "raise"
    THEN [app |-> app, compiled |-> compiled, returned |-> 0]
    ELSE [app |-> compiled + 1, compiled |-> compiled + 1, returned |-> compiled + 1]

\* get_langgraph_app / get_rag_app
get_langgraph_app(app, compiled, outcome) ==
    IF app = 0 THEN build_graph_instance(app, compiled, outcome)
    ELSE [app |-> app, compiled |-> compiled, returned |-> app]

NoGlobals == [g \in Getters |-> [app |-> 0, compiled |-> 0]]

IdleTask == [status |-> "idle", getter |-> "", app |-> 0, calls |-> 0, seen |-> {}]

\* a task calls a getter; the call returns a graph or raises
task_get_langgraph_app(t) ==
    /\ wf = "getter"
    /\ requests[t].status # "awaiting"
    /\ requests[t].calls < MaxCalls
    /\ \E g \in Getters, outcome \in {"ok", "raise"} :
          LET call == get_langgraph_app(locals[g].app, locals[g].compiled, outcome) IN
          /\ locals' = [locals EXCEPT ![g] = [app |-> call.app,
                                              compiled |-> call.compiled]]
          /\ requests' = [requests EXCEPT ![t] =
                [ status |-> IF call.returned = 0 THEN "raised" ELSE "awaiting",
                  getter |-> g,
                  app |-> call.returned,
                  calls |-> requests[t].calls + 1,
                  seen |-> IF call.returned = 0 THEN requests[t].seen
                           ELSE requests[t].seen \cup {<<g, call.returned>>} ]]
    /\ UNCHANGED <<wf, pc, state, invoked, route, raised, errored, self, verdict,
                   context, chunks_collection, maps_collection, chat_collection,
                   response>>

\* the graph run the task awaited on its graph returns
task_ainvoke_returns(t) ==
    /\ wf = "getter"
    /\ requests[t].status = "awaiting"
    /\ requests' = [requests EXCEPT ![t].status = "returned"]
    /\ UNCHANGED <<wf, pc, state, invoked, route, raised, errored, self, verdict,
                   context, chunks_collection, maps_collection, chat_collection,
                   response, locals>>

GetterInit ==
    /\ wf = "getter"
    /\ pc = END
    /\ state = DocInitialState
    /\ invoked = <<>>
    /\ route = "none"
    /\ raised = FALSE
    /\ errored = FALSE
    /\ self = [web_search_tool |-> FALSE, structured |-> TRUE, vector_store |-> TRUE]
    /\ verdict = NoVerdict
    /\ context = <<>>
    /\ chunks_collection = <<>>
    /\ maps_collection = <<>>
    /\ chat_collection = <<>>
    /\ requests = [t \in Tasks |-> IdleTask]
    /\ response = None
    /\ locals = NoGlobals

GetterNext ==
    \/ \E t \in Tasks : task_get_langgraph_app(t)
    \/ \E t \in Tasks : task_ainvoke_returns(t)

GetterSpec == GetterInit /\ [][GetterNext]_vars

(***************************************************************************)
(* ChatService called directly (chat_service.py): tasks of one event loop  *)
(* call save_message and soft_delete_conversation for one user and map.    *)
(* The methods are coroutines without an await (the pymongo calls block),  *)
(* so a call that was scheduled runs to its end in one step; calls that    *)
(* are scheduled together run in either order.  `requests` holds the       *)
(* tasks, `response` the ChatHistoryResponse of the call that ran last.    *)
(***************************************************************************)
MaxSaves == 2

Savers == 1..MaxInFlight

\* ChatHistoryResponse of save_message
save_message_response(coll, node_id, outcome) ==
    IF outcome = "raise"
    THEN [success |-> FALSE, message |-> "Database error occurred"]
    ELSE IF find_one(coll, node_id) # 0
    THEN [success |-> TRUE, message |-> "Message saved successfully"]
    ELSE IF ~unique_index_allows(coll, node_id)
    THEN [success |-> FALSE, message |-> "Database error occurred"]
    ELSE [success |-> TRUE, message |-> "New conversation created and message saved"]

\* ChatHistoryResponse of soft_delete_conversation
soft_delete_response(coll, node_id, outcome) ==
    IF outcome = "raise"
    THEN [success |-> FALSE, message |-> "Database error occurred"]
    ELSE IF find_one(coll, node_id) = 0
    THEN [success |-> FALSE, message |-> "No conversation found to delete"]
    ELSE [success |-> TRUE, message |-> "Conversation deleted successfully"]

\* the k-th message task t saves
ChatMessage(t, k) ==
    [type |-> "question", content |-> <<"message", t, k>>, cited_sources |-> <<>>]

IdleSaver ==
    [ phase |-> "idle", node_id |-> None, calls |-> 0, outcome |-> "none",
      success |-> FALSE, together |-> FALSE ]

NoChatHistoryResponse == [success |-> FALSE, message |-> None]

\* a task calls save_message: the coroutine is scheduled
conv_call_save_message(t) ==
    /\ wf = "conversation"
    /\ requests[t].phase # "scheduled"
    /\ requests[t].calls < MaxSaves
    /\ \E node_id \in NodeIds :
          LET pending == {q \in Savers \ {t} : /\ requests[q].phase = "scheduled"
                                               /\ requests[q].node_id = node_id}
          IN requests' = [q \in Savers |->
                IF q = t
                THEN [ phase |-> "scheduled", node_id |-> node_id,
                       calls |-> requests[t].calls + 1, outcome |-> "none",
                       success |-> FALSE, together |-> pending # {} ]
                ELSE IF q \in pending THEN [requests[q] EXCEPT !.together = TRUE]
                ELSE requests[q]]
    /\ UNCHANGED <<workflow_vars, chat_collection, response>>

\* the scheduled save_message runs
conv_save_message(t) ==
    /\ wf = "conversation"
    /\ requests[t].phase = "scheduled"
    /\ \E outcome \in {"ok", "raise"} :
          LET req == requests[t]
              answer == save_message_response(chat_collection, req.node_id, outcome)
          IN /\ chat_collection' =
                    save_message(chat_collection, req.node_id, "label",
                                 ChatMessage(t, req.calls), outcome)
             /\ response' = answer
             /\ requests' = [requests EXCEPT ![t] =
                    [req EXCEPT !.phase = "returned", !.outcome = outcome,
                                !.success = answer.success]]
    /\ UNCHANGED workflow_vars

\* a soft_delete_conversation call runs
conv_soft_delete_conversation ==
    /\ wf = "conversation"
    /\ \E node_id \in NodeIds, outcome \in {"ok", "raise"} :
          /\ chat_collection' =
                soft_delete_conversation(chat_collection, node_id, outcome)
          /\ response' = soft_delete_response(chat_collection, node_id, outcome)
    /\ UNCHANGED <<workflow_vars, requests>>

ConversationInit ==
    /\ wf = "conversation"
    /\ pc = END
    /\ state = DocInitialState
    /\ invoked = <<>>
    /\ route = "none"
    /\ raised = FALSE
    /\ errored = FALSE
    /\ self = [web_search_tool |-> FALSE, structured |-> TRUE, vector_store |-> TRUE]
    /\ verdict = NoVerdict
    /\ context = <<>>
    /\ chunks_collection = <<>>
    /\ maps_collection = <<>>
    /\ chat_collection = <<>>
    /\ requests = [t \in Savers |-> IdleSaver]
    /\ response = NoChatHistoryResponse
    /\ locals = None

ConversationNext ==
    \/ \E t \in Savers : conv_call_save_message(t)
    \/ \E t \in Savers : conv_save_message(t)
    \/ conv_soft_delete_conversation

ConversationSpec == ConversationInit /\ [][ConversationNext]_vars

(***************************************************************************)
(* The content splitter of outline extraction (_split_content_by_length,  *)
(* document_processing_nodes.py).  A content is its paragraphs (the pieces *)
(* between "\n\n"), a paragraph is its sentences (the pieces between       *)
(* ". "), and a sentence is its number of characters.  A section is the    *)
(* paragraphs joined into it and the period appended to it.  `locals`      *)
(* holds the content and the sections returned for it.                     *)
(***************************************************************************)
max_length == 8
MaxParagraphs == 3
MaxSentences == 2

SentenceLengths == {2, max_length \div 2, max_length + 1}
Paragraphs == UNION {[1..n -> SentenceLengths] : n \in 1..MaxSentences}
Contents == UNION {[1..m -> Paragraphs] : m \in 1..MaxParagraphs}

\* len(separator.join(pieces)) for pieces given by their lengths
RECURSIVE join_length(_, _)
join_length(lengths, separator) ==
    IF lengths = <<>> THEN 0
    ELSE IF Len(lengths) = 1 THEN lengths[1]
    ELSE lengths[1] + separator + join_length(Tail(lengths), separator)

\* len(paragraph)
paragraph_length(paragraph) == join_length(paragraph, 2)

\* len("\n\n".join(paragraphs))
content_length(paragraphs) ==
    join_length([i \in DOMAIN paragraphs |-> paragraph_length(paragraphs[i])], 2)

Section(paragraphs, period) == [paragraphs |-> paragraphs, period |-> period]

\* len(section)
section_length(section) == content_length(section.paragraphs) + section.period

\* the sentence loop of a paragraph longer than max_length, from the k-th
\* sentence on: the sections it appends
RECURSIVE split_sentences(_, _, _, _)
split_sentences(sentences, k, temp_chunk, temp_length) ==
    IF k > Len(sentences)
    THEN IF temp_chunk # <<>> THEN <<Section(<<temp_chunk>>, 0)>> ELSE <<>>
    ELSE
    LET sentence_length == sentences[k] + 2 IN
    IF temp_length + sentence_length > max_length /\ temp_chunk # <<>>
    THEN <<Section(<<temp_chunk>>, 1)>>
            \o split_sentences(sentences, k + 1, <<sentences[k]>>, sentence_length)
    ELSE split_sentences(sentences, k + 1, Append(temp_chunk, sentences[k]),
                         temp_length + sentence_length)

\* the paragraph loop of _split_content_by_length from the k-th paragraph on
RECURSIVE split_paragraphs(_, _, _, _, _)
split_paragraphs(paragraphs, k, chunks, current_chunk, current_length) ==
    IF k > Len(paragraphs)
    THEN IF current_chunk # <<>> THEN Append(chunks, Section(current_chunk, 0))
         ELSE chunks
    ELSE
    LET paragraph == paragraphs[k]
        para_length == paragraph_length(paragraph)
    IN
    IF para_length > max_length
    THEN split_paragraphs(paragraphs, k + 1,
            (IF current_chunk # <<>> THEN Append(chunks, Section(current_chunk, 0))
             ELSE chunks) \o split_sentences(paragraph, 1, <<>>, 0),
            <<>>, 0)
    ELSE IF current_length + para_length > max_length /\ current_chunk # <<>>
    THEN split_paragraphs(paragraphs, k + 1,
            Append(chunks, Section(current_chunk, 0)),
            <<paragraph>>, para_length)
    ELSE split_paragraphs(paragraphs, k + 1, chunks,
            Append(current_chunk, paragraph), current_length + para_length + 2)

\* _split_content_by_length(content, max_length)
split_content_by_length(content) ==
    IF content_length(content) <= max_length THEN <<Section(content, 0)>>
    ELSE split_paragraphs(content, 1, <<>>, <<>>, 0)

\* extract_outline_node splits the raw content into sections
split_extract_outline ==
    /\ wf = "split"
    /\ pc = "extract_outline"
    /\ locals' = [locals EXCEPT !.sections = split_content_by_length(locals.content)]
    /\ pc' = END
    /\ UNCHANGED <<wf, state, invoked, route, raised, errored, self, verdict,
                   context, chunks_collection, maps_collection, chat_collection,
                   requests, response>>

SplitInit ==
    /\ wf = "split"
    /\ pc = "extract_outline"
    /\ state = DocInitialState
    /\ invoked = <<>>
    /\ route = "none"
    /\ raised = FALSE
    /\ errored = FALSE
    /\ self = [web_search_tool |-> FALSE, structured |-> TRUE, vector_store |-> TRUE]
    /\ verdict = NoVerdict
    /\ context = <<>>
    /\ chunks_collection = <<>>
    /\ maps_collection = <<>>
    /\ chat_collection = <<>>
    /\ requests = <<>>
    /\ response = None
    /\ \E content \in Contents : locals = [content |-> content, sections |-> <<>>]

SplitNext == split_extract_outline

SplitSpec == SplitInit /\ [][SplitNext]_vars

(***************************************************************************)
(* Properties.                                                             *)
(***************************************************************************)
Range(seq) == {seq[i] : i \in DOMAIN seq}

Occurrences(seq, x) == Cardinality({i \in DOMAIN seq : seq[i] = x})

DocDone == wf = "doc" /\ pc = END

\* C1: every run of the document-processing workflow terminates, and its final
\* state has stage completed or failed, whatever the stages and the executor do.
C1_DocRunEndsCompletedOrFailed ==
    /\ [](DocDone => state.stage \in {"completed", "failed"})
    /\ ((wf = "doc") ~> DocDone)

C1_Witness ==
    /\ DocDone
    /\ state.stage = "failed"
    /\ Len(invoked) >= 3
    /\ ~raised

\* C2: in the document-processing workflow, once a stage has set the error the
\* router selects failed whatever the stage value is, and no further stage
\* function is invoked in that run.
C2_ErrorRoutesToFailed ==
    (wf = "doc" /\ errored /\ ~raised) =>
        /\ \A stage \in DocStages :
              route_document_processing(stage, state.error_message) = "failed"
        /\ invoked[Len(invoked)] # "finalize" => route = "failed"
        /\ pc = END

C2_Witness ==
    /\ wf = "doc"
    /\ errored
    /\ ~raised
    /\ invoked = <<"extract_content", "extract_outline">>
    /\ route = "failed"

\* the error retrieve_from_mongodb sets, alone or followed by a web search error
RetrieveSetError ==
    state.error_message \in
        {"MongoDB Vector Store not available.", "DB retrieval failed",
         "DB retrieval failed. Targeted web search failed"}

\* C3: in the RAG workflow, if the retrieve stage sets the error, the next
\* routing decision selects failed: neither grading, escalation nor generation
\* is invoked afterwards in that run.
C3_RetrieveErrorEndsRun ==
    (wf = "ragnodes" /\ RetrieveSetError) =>
        Range(invoked) \cap {"grade_db_retrieval", "web_search", "generate_final_answer"} = {}

\* C4: once the error is set during a workflow run it stays set until the run
\* ends: no later stage clears it or replaces it with "no error", so a run in
\* which a stage failed never finishes without an error.
C4_ErrorStaysSet == errored => state.error_message # None

C5_StageOrder ==
    <<"initialized", "content_extracted", "outline_extracted", "mind_map_generated",
      "content_chunked", "chunks_embedded", "completed">>

C5_Successors(stage) ==
    {"failed"} \cup
    {C5_StageOrder[i + 1] : i \in {j \in 1..(Len(C5_StageOrder) - 1) : C5_StageOrder[j] = stage}}

\* C5: in a document-processing run the stage value moves only forward, one
\* step at a time, through the stage order (or jumps to failed): no stage is
\* skipped and no stage function is executed a second time.
C5_StageMovesForwardOnce ==
    /\ [][wf = "doc" => state'.stage \in C5_Successors(state.stage)]_vars
    /\ [](wf = "doc" => \A node \in DocNodes : Occurrences(invoked, node) <= 1)

C5_Witness ==
    /\ DocDone
    /\ state.stage = "completed"
    /\ Len(invoked) = Cardinality(DocNodes)

Graded == wf = "ragnodes" /\ "grade_db_retrieval" \in Range(invoked)

\* the grading call returned a response with both is_sufficient and confidence
FullVerdict ==
    /\ verdict.kind = "response"
    /\ verdict.response.has_confidence
    /\ verdict.response.is_sufficient # "missing"

C6_Direct ==
    /\ verdict.response.is_sufficient = "true"
    /\ verdict.response.confidence_score >= 60

\* C6: after grading has produced a verdict, the RAG workflow goes to
\* generation without escalation exactly when is_sufficient is true and
\* confidence >= 0.6; in every other case it goes through escalation first.
C6_SufficiencyGate ==
    (Graded /\ FullVerdict) =>
        /\ C6_Direct <=> state.db_retrieval_status = "generate_from_db"
        /\ C6_Direct =>
              /\ "web_search" \notin Range(invoked)
              /\ pc \in {"generate_final_answer", END}
        /\ ~C6_Direct =>
              IF Len(invoked) = 2 THEN pc = "web_search" ELSE invoked[3] = "web_search"

C6_Witness ==
    /\ Graded
    /\ FullVerdict
    /\ verdict.response.is_sufficient = "true"
    /\ verdict.response.confidence_score = 60
    /\ invoked = <<"retrieve_mongodb", "grade_db_retrieval", "generate_final_answer">>

\* C7: if the retrieve stage returns zero documents, the grade stage is skipped
\* and the run goes directly to generation with empty context, and the error is
\* not set.
C7_ZeroDocumentsSkipGrading ==
    (wf = "ragnodes" /\ Len(invoked) >= 1 /\ state.db_documents = <<>> /\ ~RetrieveSetError) =>
        /\ Range(invoked) \cap {"grade_db_retrieval", "web_search"} = {}
        /\ context = <<>>
        /\ ~Truthy(state.error_message)

\* the grading call gave no verdict at all
NoGradeProduced == verdict.kind \in {"skipped", "raise", "unparsable"}

LacksConfidence == verdict.kind = "response" /\ ~verdict.response.has_confidence

\* C8 as claimed: whenever grading cannot produce a full verdict (too few
\* documents, the call raises, the response cannot be parsed or lacks a
\* confidence value) the outcome is escalation, never generation from the
\* database documents alone.
C8_IncompleteVerdictEscalates ==
    (Graded /\ (NoGradeProduced \/ LacksConfidence)) =>
        state.db_retrieval_status = "perform_web_search"

\* C8 as amended: no verdict (too few documents, the call raises, the response
\* cannot be parsed) always escalates and grading never sets the error; a
\* response that lacks only the confidence value gets a default confidence:
\* 1.0 from the structured-output LLM, so is_sufficient alone decides, and 0.5
\* from manual parsing, which escalates.
C8_NoVerdictEscalates ==
    Graded =>
        /\ NoGradeProduced => state.db_retrieval_status = "perform_web_search"
        /\ (LacksConfidence /\ ~self.structured) =>
              state.db_retrieval_status = "perform_web_search"
        /\ (LacksConfidence /\ self.structured) =>
              (state.db_retrieval_status = "generate_from_db"
                  <=> verdict.response.is_sufficient = "true")
        /\ (Len(invoked) = 2 /\ Truthy(state.error_message)) => RetrieveSetError

C8_Witness ==
    /\ Graded
    /\ verdict.kind = "raise"
    /\ Len(state.db_documents) >= MIN_DB_DOCS_FOR_LLM_GRADING
    /\ state.db_retrieval_status = "perform_web_search"
    /\ "web_search" \in Range(invoked)

\* C9: the escalation stage is invoked at most once per RAG run, only after the
\* grade stage and only when grading indicated insufficiency or low
\* confidence; whenever it runs, the generate stage runs after it and receives
\* the retrieved documents together with the escalation results as context.
C9_EscalationOnceThenGenerate ==
    (wf = "ragnodes" /\ "web_search" \in Range(invoked)) =>
        /\ Occurrences(invoked, "web_search") = 1
        /\ invoked[2] = "grade_db_retrieval" /\ invoked[3] = "web_search"
        /\ state.db_retrieval_status = "perform_web_search"
        /\ ~(FullVerdict /\ C6_Direct)
        /\ IF Len(invoked) = 3
           THEN pc = "generate_final_answer"
           ELSE /\ invoked[4] = "generate_final_answer"
                /\ pc = END
                /\ context = state.db_documents \o state.web_documents

C9_Witness ==
    /\ wf = "ragnodes"
    /\ invoked = <<"retrieve_mongodb", "grade_db_retrieval", "web_search",
                   "generate_final_answer">>
    /\ Len(state.db_documents) >= 1
    /\ Len(state.web_documents) >= 1
    /\ FullVerdict
    /\ verdict.response.is_sufficient = "true"

\* C10: when no secondary source is configured, the escalation stage adds no
\* documents, does not set or change the error, and generation still runs with
\* whatever context was retrieved so far.
C10_NoSecondarySourceIsNoError ==
    /\ [][(wf = "ragnodes" /\ pc = "web_search" /\ ~self.web_search_tool) =>
            /\ state'.web_documents = <<>>
            /\ state'.error_message = state.error_message
            /\ pc' = "generate_final_answer"]_vars
    /\ []((wf = "ragnodes" /\ ~self.web_search_tool /\ pc = END
              /\ "web_search" \in Range(invoked)) =>
            /\ invoked[Len(invoked)] = "generate_final_answer"
            /\ context = state.db_documents)

C10_Witness ==
    /\ wf = "ragnodes"
    /\ ~self.web_search_tool
    /\ "web_search" \in Range(invoked)
    /\ pc = END
    /\ Len(context) >= 1
    /\ state.answer = "answer"

Generated == wf = "ragnodes" /\ pc = END

\* the citation entries of the documents supplied as context: the retrieved
\* documents followed by the escalation documents
CitationsOf(docs) == [i \in 1..Len(docs) |-> CitationSource(docs[i])]

\* C11: whenever generation returns an answer, its citation list has exactly
\* one entry per document supplied as context (all retrieved documents followed
\* by all escalation documents, in order); with empty context the citation
\* list is empty.
C11_CitationPerContextDocument ==
    Generated =>
        /\ state.answer # None
        /\ state.cited_sources = CitationsOf(state.db_documents \o state.web_documents)

\* C11 (amended): the citation list has one entry per context document when
\* the completion call returned; when the call raised, the answer is the fixed
\* error text and the citation list is empty although context was supplied.
C11_CitationPerContextDocumentUnlessCallFailed ==
    Generated =>
        /\ state.answer # None
        /\ context = state.db_documents \o state.web_documents
        /\ state.cited_sources =
              IF state.answer = "Error generating answer from LLM."
              THEN <<>>
              ELSE CitationsOf(state.db_documents \o state.web_documents)
        /\ (context = <<>>) => (state.cited_sources = <<>>)

C11_Witness ==
    /\ Generated
    /\ state.answer = "answer"
    /\ Len(state.db_documents) = 2
    /\ Len(state.web_documents) = 1
    /\ Len(state.cited_sources) = 3
    /\ state.cited_sources[3].type = "web_search"

\* the messages of the conversation a history lookup for the node reads
StoredMessages(node_id) ==
    IF \E i \in DOMAIN chat_collection :
          chat_collection[i].node_id = node_id /\ ~chat_collection[i].is_deleted
    THEN chat_collection[CHOOSE i \in DOMAIN chat_collection :
                           /\ chat_collection[i].node_id = node_id
                           /\ ~chat_collection[i].is_deleted].messages
    ELSE <<>>

\* positions of the questions with exactly this text that an answer follows
ExactQuestions(messages, question) ==
    {i \in 1..(Len(messages) - 1) :
        /\ messages[i].type = "question"
        /\ messages[i].content = question
        /\ messages[i + 1].type = "answer"}

\* positions of the questions equal to this text up to case and surrounding
\* whitespace that an answer follows
MatchingQuestions(messages, question) ==
    {i \in 1..(Len(messages) - 1) :
        /\ messages[i].type = "question"
        /\ strip_lower(messages[i].content) = strip_lower(question)
        /\ messages[i + 1].type = "answer"}

\* this step suspends call r on the RAG query after it has read the history
StartsRag(r) ==
    /\ requests[r].phase = "idle"
    /\ requests'[r].phase = "rag"
    /\ requests'[r].history = "ok"

\* this step returns a response taken from the conversation history
ServedFromHistory ==
    /\ response' # response
    /\ response'.message = "Retrieved from chat history"

AppendedByCall(old, seq, question) ==
    /\ Len(seq) >= Len(old)
    /\ Len(seq) <= Len(old) + 2
    /\ SubSeq(seq, 1, Len(old)) = old
    /\ \A k \in (Len(old) + 1)..Len(seq) :
          \/ seq[k].type = "answer" /\ k = Len(seq)
          \/ /\ seq[k].type = "question"
             /\ seq[k].content = question
             /\ k = Len(old) + 1

\* no step removes a document or a message or clears a soft-delete flag, and
\* the messages a step adds to a conversation are those of one call for the
\* node of that conversation, appended at its end
KeepsAndAppends ==
    /\ Len(chat_collection') >= Len(chat_collection)
    /\ \A i \in DOMAIN chat_collection :
          /\ chat_collection'[i].id = chat_collection[i].id
          /\ chat_collection'[i].node_id = chat_collection[i].node_id
          /\ chat_collection[i].is_deleted => chat_collection'[i].is_deleted
          /\ SubSeq(chat_collection'[i].messages, 1,
                    Len(chat_collection[i].messages))
                = chat_collection[i].messages
    /\ \A k \in DOMAIN chat_collection' :
          LET old == IF k \in DOMAIN chat_collection
                     THEN chat_collection[k].messages ELSE <<>>
          IN chat_collection'[k].messages # old =>
                \E r \in Requests :
                   /\ requests[r].phase = "rag"
                   /\ requests'[r].phase = "idle"
                   /\ requests[r].node_id = chat_collection'[k].node_id
                   /\ AppendedByCall(old, chat_collection'[k].messages,
                                     requests[r].question)

GraphDone == wf = "graph" /\ pc = "generate_main_map_mermaid"

\* position of a label in the enumeration the merge loops went through
PositionOf(label) ==
    CHOOSE i \in DOMAIN locals.unique_node_labels :
        locals.unique_node_labels[i] = label

\* the label reached from a label after n steps along the merge map
RECURSIVE Follow(_, _)
Follow(label, n) ==
    IF n = 0 THEN label ELSE Follow(locals.node_map[label], n - 1)

Redirected == {label \in DOMAIN locals.node_map : locals.node_map[label] # label}

\* C14: for every similarity matrix and every enumeration order of the unique
\* labels, the merge map has no cycle: a label already redirected is never
\* used as a merge source or target again, every redirect points from a later
\* label to an earlier label, and following the map from any label terminates
\* at a label that maps to itself.
C14_MergeMapHasNoCycle ==
    GraphDone =>
        \A label \in DOMAIN locals.node_map :
            /\ label \in Redirected =>
                  /\ PositionOf(locals.node_map[label]) < PositionOf(label)
                  /\ locals.node_map[label] \notin Redirected
            /\ Follow(label, Cardinality(DOMAIN locals.node_map)) \notin Redirected

C14_Witness ==
    /\ GraphDone
    /\ Cardinality(DOMAIN locals.node_map) = 3
    /\ Cardinality(Redirected) = 1
    /\ \E label \in Redirected : PositionOf(label) = 3 /\ PositionOf(locals.node_map[label]) = 2

\* C15: for every merge map the similarity merge produces and every label,
\* resolving the label and then resolving the result again yields the same
\* canonical label.
C15_ResolutionIsIdempotent ==
    GraphDone =>
        /\ \A label \in DOMAIN locals.node_map :
              /\ resolve(locals.node_map, resolve(locals.node_map, label))
                    = resolve(locals.node_map, label)
              /\ resolve(locals.node_map, label) \notin Redirected
        /\ \A k \in DOMAIN state.processed_triples :
              /\ state.processed_triples[k].source \notin Redirected
              /\ state.processed_triples[k].target \notin Redirected

C15_Witness ==
    /\ GraphDone
    /\ Cardinality(Redirected) = 2
    /\ Len(state.processed_triples) = 2

\* C16: no triple in the concept graph builder's output has source equal to
\* target, including a triple whose two endpoints were identical in the input
\* or were merged into the same canonical label.
C16_NoSelfLoops ==
    GraphDone =>
        \A k \in DOMAIN state.processed_triples :
            state.processed_triples[k].source # state.processed_triples[k].target

\* C17: every triple in the concept graph builder's output has a non-empty
\* source, target and relation after normalization, for all raw inputs
\* including fields that contain only whitespace.
C17_FieldsNonEmpty ==
    GraphDone =>
        \A k \in DOMAIN state.processed_triples :
            /\ state.processed_triples[k].source # <<>>
            /\ state.processed_triples[k].target # <<>>
            /\ state.processed_triples[k].relation # <<>>

\* C18: for mind maps, two triples (A,B,rel) and (B,A,rel) with the same
\* relation collapse to exactly one edge in the output: deduplication does not
\* depend on the direction of a triple.
C18_ReversedTriplesCollapse ==
    GraphDone =>
        \A h, k \in DOMAIN state.processed_triples :
            (/\ state.processed_triples[h].source = state.processed_triples[k].target
             /\ state.processed_triples[h].target = state.processed_triples[k].source
             /\ state.processed_triples[h].relation = state.processed_triples[k].relation)
               => h = k

\* position of the first occurrence of a triple in a list
FirstOccurrence(triples, triple) ==
    CHOOSE k \in DOMAIN triples :
        triples[k] = triple /\ \A h \in 1..(k - 1) : triples[h] # triple

\* C19: the concept graph builder's output contains no two triples with the
\* same (source, target, relation) after merge resolution, and the surviving
\* triples appear in the order of their first occurrence in the input.
C19_UniqueInInputOrder ==
    GraphDone =>
        /\ \A h, k \in DOMAIN state.processed_triples :
              state.processed_triples[h] = state.processed_triples[k] => h = k
        /\ Range(state.processed_triples) = Range(locals.merged_triples_final)
        /\ \A h, k \in DOMAIN state.processed_triples :
              h < k =>
                 FirstOccurrence(locals.merged_triples_final, state.processed_triples[h])
                   < FirstOccurrence(locals.merged_triples_final,
                                     state.processed_triples[k])
        /\ \A k \in DOMAIN locals.merged_triples_final :
              /\ locals.merged_triples_final[k].source \notin Redirected
              /\ locals.merged_triples_final[k].target \notin Redirected

C19_Witness ==
    /\ GraphDone
    /\ Len(locals.merged_triples_final) = 2
    /\ Len(state.processed_triples) = 1
    /\ state.raw_triples[1].source # state.raw_triples[2].source
    /\ Redirected # {}

\* a layout operation has returned
LayoutDone == wf = "layout" /\ pc = END

\* the layout the operation returned
ReturnedLayout ==
    IF invoked = <<"generate_react_flow">> THEN state.react_flow_data ELSE response

\* the fixed two-node graph with its one edge
IsFallbackGraph(layout) ==
    /\ Len(layout.nodes) = 2
    /\ Len(layout.edges) = 1
    /\ \A k \in 1..2 :
          /\ layout.nodes[k].id = create_fallback_react_flow.nodes[k].id
          /\ layout.nodes[k].label = create_fallback_react_flow.nodes[k].label
    /\ layout.edges[1].source = layout.nodes[1].id
    /\ layout.edges[1].target = layout.nodes[2].id

\* no hierarchy, no triples, or triples whose endpoints are all blank
UnusableLayoutInput ==
    IF invoked = <<"generate_react_flow">>
    THEN \/ state.hierarchical_chunks = <<>>
         \/ extract_hierarchy_titles(state.attachments).hierarchy = <<>>
    ELSE /\ locals.hierarchical_concepts.nodes = <<>>
         /\ locals.hierarchical_concepts.title = <<>>
         /\ \A k \in DOMAIN locals.triples :
               /\ strip(locals.triples[k].source) = <<>>
               /\ strip(locals.triples[k].target) = <<>>

\* C20: every layout operation returns at least one node for every input; for
\* empty, missing or unusable input (no hierarchy, no triples, or triples whose
\* endpoints are all blank) it returns the fixed two-node fallback graph with
\* one edge, never an empty node list.
C20_LayoutReturnsNodes ==
    LayoutDone =>
        /\ Len(ReturnedLayout.nodes) >= 1
        /\ UnusableLayoutInput => IsFallbackGraph(ReturnedLayout)

\* generate_react_flow has laid out a hierarchy
TreeLaidOut ==
    /\ LayoutDone
    /\ invoked = <<"generate_react_flow">>
    /\ state.error_message = None
    /\ extract_hierarchy_titles(state.attachments).hierarchy # <<>>

\* the span of every node of a forest, in the order the nodes are laid out:
\* a node's span starts where its parent's span starts, moved right by the
\* widths of the siblings before it
RECURSIVE Spans(_, _)
Spans(nodes_list, span_start) ==
    IF nodes_list = <<>> THEN <<>>
    ELSE <<[ span_start |-> span_start,
             children_width |-> total_width(Head(nodes_list).children) * NODE_WIDTH,
             has_children |-> Head(nodes_list).children # <<>> ]>>
         \o Spans(Head(nodes_list).children, span_start)
         \o Spans(Tail(nodes_list),
                  span_start + calculate_subtree_width(Head(nodes_list)) * NODE_WIDTH)

\* the spans of the laid-out nodes, the synthetic root first when there is one
LaidOutSpans ==
    LET hierarchy == extract_hierarchy_titles(state.attachments).hierarchy IN
    (IF Len(hierarchy) > 1
     THEN <<[ span_start |-> START_X,
              children_width |-> total_width(hierarchy) * NODE_WIDTH,
              has_children |-> TRUE ]>>
     ELSE <<>>) \o Spans(hierarchy, START_X)

\* C21: in the tree layout, every node that has children is placed at
\* X = midpoint of its children's pixel span minus half the node width (within
\* 1 px), where the children's span starts at the X where the node's own span
\* starts and its width is the sum of the children's subtree widths times the
\* node width.
C21_ParentCenteredOverChildren ==
    TreeLaidOut =>
        /\ Len(state.react_flow_data.nodes) = Len(LaidOutSpans)
        /\ \A k \in DOMAIN LaidOutSpans :
              LaidOutSpans[k].has_children =>
                 LET twice_x == 2 * state.react_flow_data.nodes[k].x
                     twice_expected == 2 * LaidOutSpans[k].span_start
                                         + LaidOutSpans[k].children_width - NODE_WIDTH
                 IN twice_x - twice_expected \in (0 - 2)..2

C21_Witness ==
    /\ TreeLaidOut
    /\ \E k \in DOMAIN LaidOutSpans :
          /\ LaidOutSpans[k].has_children
          /\ LaidOutSpans[k].children_width = 2 * NODE_WIDTH
          /\ LaidOutSpans[k].span_start > START_X
          /\ state.react_flow_data.nodes[k].level = 1

\* optimize_mind_map_node has parsed the outline into the tree
OutlineParsed == wf = "outline" /\ invoked = <<"extract_outline", "optimize_mind_map">>
                   /\ state.stage = "mind_map_generated"

ParsedLines == non_empty_lines(state.outline_text)

\* the lines whose text equals the label, ignoring letter case
LinesLike(label) ==
    {k \in DOMAIN ParsedLines : lower(strip(ParsedLines[k].text)) = lower(label)}

NoTwoNodesAlike ==
    \A i, j \in DOMAIN state.hierarchical_data :
        lower(state.hierarchical_data[i].label) = lower(state.hierarchical_data[j].label)
           => i = j

OutlineExtracted ==
    /\ wf = "outline"
    /\ invoked = <<"extract_outline">>
    /\ state.stage = "outline_extracted"

\* C23: the merged outline stored by the outline-extraction stage contains no
\* two lines whose text is equal ignoring letter case, also when the duplicate
\* lines come from different sections of the document.
C23_MergedOutlineHasNoDuplicates ==
    OutlineExtracted =>
        \A h, k \in DOMAIN state.outline_text :
            lower(state.outline_text[h].text) = lower(state.outline_text[k].text)
               => h = k

\* the sections whose call did not fail and whose cleaned outline is not empty
YieldingSections ==
    {i \in DOMAIN locals.results :
        /\ locals.results[i].type = "outline"
        /\ clean_outline_text(locals.results[i].outline) # <<>>}

\* the cleaned outlines of the yielding sections from section i on, joined
RECURSIVE JoinedFrom(_)
JoinedFrom(i) ==
    IF i > Len(locals.results) THEN <<>>
    ELSE (IF i \in YieldingSections
          THEN clean_outline_text(locals.results[i].outline) ELSE <<>>)
         \o JoinedFrom(i + 1)

\* C24: in outline extraction, a section whose call fails contributes nothing
\* and does not set the error: the stage waits for all sections and succeeds
\* with the outlines of the remaining sections, joined in section order,
\* whenever at least one section yields a non-empty outline.
C24_FailedSectionIsDropped ==
    (wf = "outline" /\ invoked # <<>> /\ YieldingSections # {}) =>
        /\ Head(invoked) = "extract_outline"
        /\ invoked = <<"extract_outline">> =>
              /\ state.stage = "outline_extracted"
              /\ state.error_message = None
              /\ state.outline_text = JoinedFrom(1)
              /\ pc = "optimize_mind_map"
        /\ locals.merged_outline # <<>> => locals.merged_outline = JoinedFrom(1)

C24_Witness ==
    /\ OutlineExtracted
    /\ Len(locals.results) = 2
    /\ locals.results[1].type = "exception"
    /\ YieldingSections = {2}

\* the optimization chain failed, or its cleaned answer is empty
OptimizerGaveNothing ==
    \/ locals.optimizer.type = "exception"
    \/ /\ locals.optimizer.type = "outline"
       /\ clean_outline_text(locals.optimizer.outline) = <<>>

\* C25: if the outline optimizer call fails or returns an empty outline, the
\* mind-map stage still succeeds: the tree is built from the un-optimized
\* merged outline, the stage becomes mind_map_generated and the error is not
\* set.
C25_OptimizerFailureFallsBack ==
    (wf = "outline" /\ invoked = <<"extract_outline", "optimize_mind_map">>
       /\ OptimizerGaveNothing) =>
        /\ state.stage = "mind_map_generated"
        /\ state.error_message = None
        /\ state.outline_text = locals.merged_outline
        /\ locals.merged_outline # <<>>
        /\ state.hierarchical_data # <<>>
        /\ \A i \in DOMAIN state.hierarchical_data :
              /\ state.hierarchical_data[i].line \in
                    DOMAIN non_empty_lines(locals.merged_outline)
              /\ state.hierarchical_data[i].label =
                    strip(non_empty_lines(locals.merged_outline)
                             [state.hierarchical_data[i].line].text)
        /\ pc = "chunk_content"

C25_Witness ==
    /\ wf = "outline"
    /\ invoked = <<"extract_outline", "optimize_mind_map">>
    /\ locals.optimizer.type = "outline"
    /\ locals.optimizer.outline # <<>>
    /\ clean_outline_text(locals.optimizer.outline) = <<>>
    /\ Len(state.hierarchical_data) = 3

\* the payload fields of the document-processing state
PayloadFields ==
    {"raw_content", "outline_text", "hierarchical_data", "chunks",
     "processing_start_time"}

\* a stage of the document workflow ran and failed
DocStageFails ==
    /\ wf = "doc"
    /\ invoked' # invoked
    /\ ~raised'
    /\ state'.stage = "failed"

FailureKeepsEarlierWork ==
    /\ DocStageFails =>
          /\ \A f \in PayloadFields :
                state[f] # DocInitialState[f] => state'[f] = state[f]
          /\ pc' = END
    /\ wf = "doc" =>
          /\ Len(chunks_collection') >= Len(chunks_collection)
          /\ SubSeq(chunks_collection', 1, Len(chunks_collection)) = chunks_collection

\* C26: when a stage fails after earlier stages succeeded, nothing done
\* earlier is undone: chunk records already persisted stay in the store
\* unchanged, and the failed run's final state still carries every payload
\* field written by the earlier stages.
C26_FailureKeepsEarlierWork == [][FailureKeepsEarlierWork]_vars

C26_Witness ==
    /\ wf = "doc"
    /\ pc = END
    /\ ~raised
    /\ state.stage = "failed"
    /\ invoked[Len(invoked)] = "embed_and_store"
    /\ state.chunks # <<>>
    /\ chunks_collection = state.chunks
    /\ state.raw_content # None
    /\ state.hierarchical_data # None

\* what a run ends with when it runs alone: its own initial_state taken through
\* the supersteps by the responses the run heard
RECURSIVE Replay(_, _)
Replay(s, heard) ==
    IF heard = <<>> THEN s
    ELSE LET h == Head(heard) IN
         IF h.node = "ainvoke" THEN s
         ELSE Replay(doc_superstep(h.node, s, [outcome |-> h.outcome, n |-> h.n]).state,
                     Tail(heard))

RunAlone(run) ==
    IF run.heard # <<>> /\ run.heard[Len(run.heard)].node = "ainvoke"
    THEN doc_except(run.initial_state, run.heard[Len(run.heard)].outcome)
    ELSE Replay(run.initial_state, run.heard)

Started(r) == requests[r].status # "idle"

\* C27: two runs executing concurrently, even for the same (user, map), never
\* read or write each other's workflow state: no two runs use the same
\* checkpointer, the checkpointer of a run holds that run's state only, and the
\* state of every run is the one its own inputs and the responses of its
\* external collaborators give.
C27_RunsShareNoWorkflowState ==
    wf = "runs" =>
        \A r \in Runs : Started(r) =>
            /\ \A q \in Runs \ {r} :
                  Started(q) => requests[q].checkpointer # requests[r].checkpointer
            /\ requests[r].state = RunAlone(requests[r])
            /\ requests[r].status = "running" =>
                  locals[requests[r].checkpointer]
                      = {[thread_id |-> requests[r].thread_id,
                          values |-> requests[r].state]}

\* both runs of one (user, map) have returned after supersteps taken while the
\* other was in flight, one completed and one failed
C27_Witness ==
    /\ wf = "runs"
    /\ \A r \in Runs : requests[r].status = "answered" /\ requests[r].peers # {}
    /\ requests[1].thread_id = requests[2].thread_id
    /\ requests[1].initial_state.user_id = requests[2].initial_state.user_id
    /\ requests[1].state.stage = "completed"
    /\ requests[2].state.stage = "failed"
    /\ Len(requests[2].heard) > 2

\* the chunk documents ingestion has persisted for (user_id, map_id)
IngestedFor(user_id, map_id) ==
    {doc \in Range(chunks_collection) : doc.user_id = user_id /\ doc.map_id = map_id}

\* C28: the candidate set of the retrieve stage for a question on (user, map) is
\* exactly the set of chunks ingestion persisted for that (user, map): no chunk
\* of another user or map is in it and no chunk of the pair is left out.
C28_CandidatesAreTheIngestedChunks ==
    wf = "ingest" /\ response.retrieved /\ response.error_message = None =>
        Range(response.candidates)
            = IngestedFor(response.user_id, response.concept_map_id)

\* C29: the ingestion entry point returns a success payload exactly when the run
\* ended in stage completed with a hierarchy tree, and in every other case an
\* error payload that carries a non-empty message.
C29_EntryPointReturnsSuccessOrMessage ==
    wf = "runs" =>
        \A r \in Runs : requests[r].status = "answered" =>
            LET result == requests[r].state
                payload == requests[r].payload
            IN /\ payload.status = "success"
                     <=> (result.stage = "completed" /\ Truthy(result.hierarchical_data))
               /\ payload.status # "success"
                     => payload.status = "error" /\ Truthy(payload.error_message)

\* the concept-map pipeline ran to its end on non-empty text and left no error
CmvsEndedWithoutError ==
    /\ wf = "cmvs"
    /\ pc = END
    /\ Truthy(state.original_text)
    /\ ~Truthy(state.error_message)

\* C30: a concept-map pipeline run on non-empty text that ends without an error
\* message has produced at least one text chunk, one embedded chunk, one raw
\* triple, one processed triple and one layout node.
C30_RunWithoutErrorProducedEveryStage ==
    CmvsEndedWithoutError =>
        /\ state.text_chunks # <<>>
        /\ state.embedded_chunks # <<>>
        /\ state.raw_triples # <<>>
        /\ state.processed_triples # <<>>
        /\ state.react_flow_data \in {"llm", "fallback"}

\* the documents of a collection that the run on FilePaths[r] wrote
MapDocumentsOf(r) ==
    {i \in DOMAIN maps_collection : maps_collection[i].file_path = FilePaths[r]}

ChunkDocumentsOf(r) ==
    {i \in DOMAIN chunks_collection : chunks_collection[i].chunk_id[1] = FilePaths[r]}

\* C31: the store never holds a concept-map document written by a run without
\* the chunk records of the same run, and every run that persisted its
\* concept-map document ends in completed.
C31_MapDocumentFollowsChunkRecords ==
    wf = "runs" =>
        \A r \in Runs : MapDocumentsOf(r) # {} =>
            /\ requests[r].state.chunks # <<>>
            /\ Cardinality(ChunkDocumentsOf(r)) = Len(requests[r].state.chunks)
            /\ requests[r].state.stage = "completed"
            /\ requests[r].status # "running"

\* one run has stored its chunks and its map document and completed, while the
\* other stored chunks and failed without a map document
C31_Witness ==
    /\ wf = "runs"
    /\ MapDocumentsOf(1) # {}
    /\ requests[1].state.stage = "completed"
    /\ ChunkDocumentsOf(2) # {}
    /\ requests[2].state.stage = "failed"
    /\ MapDocumentsOf(2) = {}

\* the graphs of getter g the tasks have received so far
Received(g) == {pair[2] : pair \in {p \in UNION {requests[t].seen : t \in Tasks} : p[1] = g}}

\* C32: for any interleaving of concurrent first calls to a lazy getter the graph
\* is compiled exactly once, and every caller, then and later, receives that
\* same instance.
C32_GraphCompiledOnce ==
    wf = "getter" =>
        \A g \in Getters :
            /\ locals[g].compiled <= 1
            /\ Received(g) # {} =>
                  /\ locals[g].compiled = 1
                  /\ Received(g) = {locals[g].app}

\* two tasks hold the graph of the same getter while both await their runs, and
\* a third task has made two calls and received that graph only
C32_Witness ==
    /\ wf = "getter"
    /\ requests[1].status = "awaiting"
    /\ requests[2].status = "awaiting"
    /\ requests[1].getter = requests[2].getter
    /\ requests[1].app = requests[2].app
    /\ requests[3].calls = 2
    /\ requests[3].seen = {<<requests[1].getter, requests[1].app>>}

\* the stored conversations of a node, by position
ConversationsOf(coll, node_id) == {i \in DOMAIN coll : coll[i].node_id = node_id}

\* task t's save_message runs without a database failure for a node whose only
\* conversation is soft-deleted
SavesAfterSoftDelete(t) ==
    /\ wf = "conversation"
    /\ requests[t].phase = "scheduled"
    /\ requests'[t].phase = "returned"
    /\ requests'[t].outcome = "ok"
    /\ ConversationsOf(chat_collection, requests[t].node_id) # {}
    /\ find_one(chat_collection, requests[t].node_id) = 0

StartsNewConversation(t) ==
    LET node_id == requests[t].node_id
        new == find_one(chat_collection', node_id)
    IN /\ requests'[t].success
       /\ new # 0
       /\ chat_collection'[new].messages = <<ChatMessage(t, requests[t].calls)>>
       /\ \A i \in ConversationsOf(chat_collection, node_id) :
             chat_collection'[i] = chat_collection[i]

SaveAfterSoftDeleteStartsNew ==
    \A t \in Savers : SavesAfterSoftDelete(t) => StartsNewConversation(t)

\* C33: after a conversation has been soft-deleted, the next save_message for the
\* same (user, map, node) succeeds and starts a new non-deleted conversation
\* whose history holds only the new message, while the soft-deleted
\* conversation stays in the store.
C33_SaveAfterSoftDeleteStartsNew == [][SaveAfterSoftDeleteStartsNew]_vars

\* task t's save_message returns as the second of two calls for one node that
\* were scheduled together, neither of them meeting a database failure
SecondOfTwoSavesReturns(t, q) ==
    /\ wf = "conversation"
    /\ requests[t].phase = "scheduled"
    /\ requests'[t].phase = "returned"
    /\ requests'[t].outcome = "ok"
    /\ requests[t].together
    /\ requests[q].phase = "returned"
    /\ requests[q].outcome = "ok"
    /\ requests[q].together
    /\ requests[q].node_id = requests[t].node_id

BothSavedInOneConversation(t, q) ==
    LET node_id == requests[t].node_id
        active == {i \in ConversationsOf(chat_collection', node_id) :
                      ~chat_collection'[i].is_deleted}
    IN /\ requests'[t].success
       /\ requests'[q].success
       /\ Cardinality(active) = 1
       /\ \A i \in active :
             {ChatMessage(t, requests[t].calls), ChatMessage(q, requests[q].calls)}
                \subseteq Range(chat_collection'[i].messages)

TwoSavesShareOneConversation ==
    \A t \in Savers : \A q \in Savers \ {t} :
        SecondOfTwoSavesReturns(t, q) => BothSavedInOneConversation(t, q)

\* C34: when two save_message calls for the same (user, map, node) run
\* concurrently, both report success and both messages end up in one single
\* non-deleted conversation: no message is lost and no second active
\* conversation is created for the key.
C34_TwoSavesShareOneConversation == [][TwoSavesShareOneConversation]_vars

\* this step is the part of call r of ask_question_endpoint after the RAG
\* query, and neither of its two save_message calls met a database error
SavesExchange(r) ==
    /\ wf = "chat"
    /\ requests[r].phase = "rag"
    /\ requests'[r].phase = "idle"
    /\ requests[r].node_id # None
    /\ requests[r].node_label # None
    /\ locals'.q_saved = "ok"
    /\ locals'.a_saved = "ok"

\* the step appends to the conversation of the node the question of call r
\* directly followed by the answer returned to call r, and nothing else; when
\* only a soft-deleted conversation of the node exists nothing is stored
ExchangeStoredTogether(r) ==
    LET node_id == requests[r].node_id
        before == get_conversation_history(chat_collection, node_id, "ok")
        after == get_conversation_history(chat_collection', node_id, "ok")
    IN IF find_one(chat_collection, node_id) = 0
          /\ ~unique_index_allows(chat_collection, node_id)
       THEN chat_collection' = chat_collection
       ELSE after = before \o
                <<[ type |-> "question", content |-> requests[r].question,
                    cited_sources |-> <<>> ],
                  [ type |-> "answer", content |-> response'.answer,
                    cited_sources |-> response'.cited_sources ]>>

QuestionsKeepTheirAnswers ==
    \A r \in DOMAIN requests : SavesExchange(r) => ExchangeStoredTogether(r)

ApologyAnswers == {rag.answer : rag \in {x \in RagResponses : x.message # None}}

\* C36: only answers produced by a successful RAG run are stored in the
\* conversation: no stored answer message holds the apology text of a failed
\* run, and no response served from the chat history returns it.
C36_ApologyNeverStored ==
    wf = "chat" =>
       /\ \A i \in DOMAIN chat_collection :
             \A k \in DOMAIN chat_collection[i].messages :
                chat_collection[i].messages[k].type = "answer"
                   => chat_collection[i].messages[k].content \notin ApologyAnswers
       /\ response.message = "Retrieved from chat history"
             => response.answer \notin ApologyAnswers

\* the indentation level of the line node n of the parsed tree was made from
LevelOfNode(n) == ParsedLines[state.hierarchical_data[n].line].spaces \div 2

\* the node made from the nearest kept line before the line of node n with a
\* smaller indentation level, the root when there is none
NearestShallowerNode(n) ==
    LET tree == state.hierarchical_data
        shallower == {j \in DOMAIN tree : /\ tree[j].line < tree[n].line
                                          /\ LevelOfNode(j) < LevelOfNode(n)}
    IN IF shallower = {} THEN 1
       ELSE CHOOSE j \in shallower : \A i \in shallower : tree[i].line <= tree[j].line

\* C37: in the tree parsed from an outline, the parent of each node is the
\* nearest preceding kept line with a smaller indentation level (the root when
\* there is none), so two consecutive lines with the same indentation become
\* siblings under the same parent.
C37_ParentIsNearestShallowerLine ==
    (OutlineParsed /\ ParsedLines # <<>>) =>
        \A n \in 2..Len(state.hierarchical_data) :
            state.hierarchical_data[n].parent = NearestShallowerNode(n)

\* the splitter has returned the sections of the content
ContentSplit == wf = "split" /\ pc = END

\* the section is one sentence, and that sentence is longer than max_length
SingleLongSentence(section) ==
    /\ Len(section.paragraphs) = 1
    /\ Len(section.paragraphs[1]) = 1
    /\ section.paragraphs[1][1] > max_length

\* C38: every section returned by the content splitter is at most max_length
\* characters long, unless it consists of a single sentence that is itself
\* longer than max_length.
C38_SectionsWithinMaxLength ==
    ContentSplit =>
        \A i \in DOMAIN locals.sections :
            \/ section_length(locals.sections[i]) <= max_length
            \/ SingleLongSentence(locals.sections[i])

\* the nodes and edges of the laid-out tree
TreeNodes == state.react_flow_data.nodes
TreeEdges == state.react_flow_data.edges

\* C39: the tree layout output is a well-formed tree for every hierarchy,
\* including hierarchies in which two nodes carry the same title: node ids are
\* pairwise distinct, edge ids are pairwise distinct, and every node except
\* the root has exactly one incoming edge.
C39_LayoutIsWellFormedTree ==
    TreeLaidOut =>
        /\ \A i, j \in DOMAIN TreeNodes : TreeNodes[i].id = TreeNodes[j].id => i = j
        /\ \A i, j \in DOMAIN TreeEdges : TreeEdges[i].id = TreeEdges[j].id => i = j
        /\ \A k \in 2..Len(TreeNodes) :
              Cardinality({e \in DOMAIN TreeEdges :
                             TreeEdges[e].target = TreeNodes[k].id}) = 1

\* C40: in the tree layout, any two distinct nodes on the same level are at
\* least one node width apart in X (no two nodes of a level overlap), for
\* every hierarchy shape.
C40_SameLevelNodesDoNotOverlap ==
    TreeLaidOut =>
        \A i, j \in DOMAIN TreeNodes :
            (i < j /\ TreeNodes[i].level = TreeNodes[j].level)
               => TreeNodes[j].x - TreeNodes[i].x >= NODE_WIDTH

\* a node of the third level is centered over two children of its own, and
\* its neighbour to the right on that level is one and a half node widths away
C40_Witness ==
    /\ TreeLaidOut
    /\ \E i, j \in DOMAIN TreeNodes :
          /\ i < j
          /\ TreeNodes[i].level = 2
          /\ TreeNodes[j].level = 2
          /\ LaidOutSpans[i].has_children
          /\ LaidOutSpans[i].children_width = 2 * NODE_WIDTH
          /\ TreeNodes[j].x - TreeNodes[i].x = NODE_WIDTH + NODE_WIDTH \div 2

====
